---- MODULE Spec2Model ----
(***************************************************************************)
(* Duplicate-content filters of the eduapp generator scripts.              *)
(*                                                                         *)
(* Strings are sequences of one-character strings.  SpecDetectors runs the *)
(* detector classes of isee_antonym.py, isee_synonym.py,                   *)
(* readcomp9_gemini.py and isee_generator.py; SpecRuns runs the antonym    *)
(* and the synonym generator, as one or two processes, against the         *)
(* question_cache table; SpecGrammar runs the grammar generator; SpecHash  *)
(* computes the question hashes of the vocabulary generators;              *)
(* SpecPopulate runs generate_and_populate of question_generator.py;       *)
(* SpecLoops runs the per-concept loops of the main routines; SpecTargets  *)
(* computes the targets of the concepts of a list; SpecUnified runs        *)
(* generate_questions_batch of readcomp9_gemini.py; SpecUpload runs        *)
(* upload_to_supabase of educational_content_generator.py.                 *)
(***************************************************************************)
EXTENDS Integers, Sequences, FiniteSets, TLC

(***************************************************************************)
(* Bounds of the model                                                     *)
(***************************************************************************)
\* number of is_duplicate calls counted in detection_stats
MaxChecks == 2
\* number of distinct keys add_word is called with in one behaviour
MaxAccepts == 2
\* length of the lists question_fingerprints and existing_passages
MaxRetained == 2

(***************************************************************************)
(* Strings                                                                 *)
(***************************************************************************)
Range(s) == {s[i] : i \in DOMAIN s}

UpperChars == {"A", "B", "C"}
LowerChars == {"a", "b", "c", "d", "e", "i", "t", "x", "y", "z"}
DigitChars == {"1"}
SpaceChars == {" "}

\* str.lower() on one character
LowerChar(c) ==
  CASE c = "A" -> "a"
    [] c = "B" -> "b"
    [] c = "C" -> "c"
    [] OTHER -> c

\* str.lower()
Lower(s) == [i \in DOMAIN s |-> LowerChar(s[i])]

\* \s of the re module
IsSpace(c) == c \in SpaceChars

\* \w of the re module
IsWordChar(c) == c \in UpperChars \cup LowerChars \cup DigitChars \cup {"_"}

Min(S) == CHOOSE x \in S : \A y \in S : x <= y

\* str.strip(): drop leading and trailing white space
Strip(s) ==
  LET lead == Cardinality({i \in DOMAIN s : \A j \in 1 .. i : IsSpace(s[j])})
      trail ==
        Cardinality({i \in DOMAIN s : \A j \in i .. Len(s) : IsSpace(s[j])})
  IN  IF lead = Len(s) THEN <<>> ELSE SubSeq(s, lead + 1, Len(s) - trail)

\* re.sub(r'[^\w\s]', '', s)
RemovePunct(s) == SelectSeq(s, LAMBDA c : IsWordChar(c) \/ IsSpace(c))

\* re.sub(r'\s+', ' ', s): every run of white space becomes one blank
CollapseRuns(s) ==
  LET marked == [i \in DOMAIN s |->
                   IF ~IsSpace(s[i]) THEN <<s[i], TRUE>>
                   ELSE <<" ", i = 1 \/ ~IsSpace(s[i - 1])>>]
      kept == SelectSeq(marked, LAMBDA m : m[2])
  IN  [i \in DOMAIN kept |-> kept[i][1]]

\* ' '.join(s.split()): the words of s, one blank between them
JoinSplit(s) == CollapseRuns(Strip(s))

\* set(s.split()): the maximal runs of non-space characters
WordSet(s) ==
  LET starts == {i \in DOMAIN s :
                   ~IsSpace(s[i]) /\ (i = 1 \/ IsSpace(s[i - 1]))}
      ends == {j \in DOMAIN s :
                 ~IsSpace(s[j]) /\ (j = Len(s) \/ IsSpace(s[j + 1]))}
  IN  {SubSeq(s, i, Min({j \in ends : j >= i})) : i \in starts}

(***************************************************************************)
(* difflib.SequenceMatcher(None, a, b).ratio(), as the detectors call it.  *)
(* Indices are 1-based; a range lo..hi-1 is written (lo, hi).              *)
(***************************************************************************)
\* the elements of b that __chain_b drops from b2j: with autojunk, in a
\* sequence of at least 200 elements, those occurring more than n/100+1 times
Popular(b) ==
  IF Len(b) >= 200
  THEN {c \in Range(b) :
          Cardinality({j \in DOMAIN b : b[j] = c}) > (Len(b) \div 100) + 1}
  ELSE {}

\* length of the block of equal b2j elements starting at a[i], b[j]
RunLen(a, b, i, j, ahi, bhi, pop) ==
  LET n == IF ahi - i < bhi - j THEN ahi - i ELSE bhi - j
      stop == {d \in 0 .. n - 1 : a[i + d] # b[j + d] \/ b[j + d] \in pop}
  IN  IF stop = {} THEN n ELSE Min(stop)

\* number of equal elements just before a[i], b[j]
ExtendBack(a, b, i, j, alo, blo) ==
  LET n == IF i - alo < j - blo THEN i - alo ELSE j - blo
      stop == {d \in 0 .. n - 1 : a[i - 1 - d] # b[j - 1 - d]}
  IN  IF stop = {} THEN n ELSE Min(stop)

\* number of equal elements from a[i], b[j] on
ExtendFwd(a, b, i, j, ahi, bhi) ==
  LET n == IF ahi - i < bhi - j THEN ahi - i ELSE bhi - j
      stop == {d \in 0 .. n - 1 : a[i + d] # b[j + d]}
  IN  IF stop = {} THEN n ELSE Min(stop)

\* the blocks <<i, j, size>> of equal b2j elements of a[alo:ahi], b[blo:bhi]
Blocks(a, b, alo, ahi, blo, bhi, pop) ==
  {<<p[1], p[2], RunLen(a, b, p[1], p[2], ahi, bhi, pop)>> :
     p \in {q \in (alo .. ahi - 1) \X {j \in blo .. bhi - 1 : b[j] \notin pop} :
              a[q[1]] = b[q[2]]}}

\* block t is found rather than block u: the longer one, of two of the same
\* size the one that starts earlier in a, then the one that starts earlier in b
BlockBefore(t, u) ==
  \/ t[3] > u[3]
  \/ t[3] = u[3] /\ t[1] < u[1]
  \/ t[3] = u[3] /\ t[1] = u[1] /\ t[2] <= u[2]

\* (besti, bestj, bestsize) after the loop over a[alo:ahi]
Longest(blocks, alo, blo) ==
  IF blocks = {} THEN <<alo, blo, 0>>
  ELSE CHOOSE t \in blocks : \A u \in blocks : BlockBefore(t, u)

\* block m extended by the equal elements before it
ExtendedBack(a, b, alo, blo, m) ==
  <<m[1] - ExtendBack(a, b, m[1], m[2], alo, blo),
    m[2] - ExtendBack(a, b, m[1], m[2], alo, blo),
    m[3] + ExtendBack(a, b, m[1], m[2], alo, blo)>>

\* block m extended by the equal elements after it
ExtendedFwd(a, b, ahi, bhi, m) ==
  <<m[1], m[2], m[3] + ExtendFwd(a, b, m[1] + m[3], m[2] + m[3], ahi, bhi)>>

\* find_longest_match: <<besti, bestj, bestsize>>
find_longest_match(a, b, alo, ahi, blo, bhi) ==
  ExtendedFwd(a, b, ahi, bhi,
    ExtendedBack(a, b, alo, blo,
      Longest(Blocks(a, b, alo, ahi, blo, bhi, Popular(b)), alo, blo)))

\* get_matching_blocks: the total size of the matching blocks, m being the
\* longest match of a[alo:ahi] and b[blo:bhi]
RECURSIVE MatchTotal(_, _, _, _, _, _)
RECURSIVE MatchAround(_, _, _, _, _, _, _)
MatchAround(a, b, alo, ahi, blo, bhi, m) ==
  IF m[3] = 0 THEN 0
  ELSE m[3]
       + (IF alo < m[1] /\ blo < m[2]
          THEN MatchTotal(a, b, alo, m[1], blo, m[2]) ELSE 0)
       + (IF m[1] + m[3] < ahi /\ m[2] + m[3] < bhi
          THEN MatchTotal(a, b, m[1] + m[3], ahi, m[2] + m[3], bhi) ELSE 0)

MatchTotal(a, b, alo, ahi, blo, bhi) ==
  MatchAround(a, b, alo, ahi, blo, bhi,
              find_longest_match(a, b, alo, ahi, blo, bhi))

\* ratio(): 2.0 * matches / length, 1.0 for two empty sequences; the
\* quotient is kept as <<numerator, denominator>>
ratio(a, b) ==
  IF Len(a) + Len(b) = 0 THEN <<1, 1>>
  ELSE <<2 * MatchTotal(a, b, 1, Len(a) + 1, 1, Len(b) + 1), Len(a) + Len(b)>>

\* FUZZY_SIMILARITY_THRESHOLD = 0.85, as a quotient
FUZZY_SIMILARITY_THRESHOLD == <<85, 100>>

QGreater(p, q) == p[1] * q[2] > q[1] * p[2]
QGeq(p, q) == p[1] * q[2] >= q[1] * p[2]

(***************************************************************************)
(* Values that are not strings                                             *)
(***************************************************************************)
\* Python's None
None == <<"<None>">>
\* a key that a dict does not have
Absent == <<"<absent>">>
\* an object that is not a string (a number, a list)
NotAString == <<"<object>">>

IsStr(v) == v # None /\ v # Absent /\ v # NotAString

\* the value a detector method returns: (is_duplicate, reason); the reason
\* text is kept with the word or the similarity that is formatted into it
Verdict(dup, text, word, sim) ==
  [raised |-> FALSE, dup |-> dup, text |-> text, word |-> word, sim |-> sim]

\* the call ended with an exception instead of a value
Raised(exc) ==
  [raised |-> TRUE, dup |-> FALSE, text |-> exc, word |-> <<>>, sim |-> <<0, 1>>]

(***************************************************************************)
(* SynonymDuplicateDetector (isee_synonym.py); AntonymDuplicateDetector    *)
(* (isee_antonym.py) is the same class without `loaded` and the counters.  *)
(***************************************************************************)
\* __init__
Syn_init ==
  [existing_base_words |-> {}, existing_questions |-> {}, loaded |-> FALSE,
   total_checks |-> 0, duplicates_found |-> 0]

Ant_init == [existing_base_words |-> {}, existing_questions |-> {}]

\* the body of the `for record in result.data` loop of the load methods: the
\* detector after the record, or the exception the record raises.  A record
\* is [null, base_word, question]: null when record['question'] is None,
\* else the two entries of the dict (Absent when the dict lacks the key)
Keyed_load_record(d, record) ==
  LET hasWord == ~record.null /\ record.base_word # Absent
      hasText == ~record.null /\ record.question # Absent
      d1 == IF hasWord /\ IsStr(record.base_word)
            THEN [d EXCEPT !.existing_base_words =
                             @ \cup {Lower(record.base_word)}]
            ELSE d
      d2 == IF hasText /\ IsStr(record.question)
            THEN [d1 EXCEPT !.existing_questions =
                              @ \cup {Lower(record.question)}]
            ELSE d1
  IN  IF hasWord /\ ~IsStr(record.base_word) THEN [ok |-> FALSE, self |-> d]
      ELSE IF hasText /\ ~IsStr(record.question) THEN [ok |-> FALSE, self |-> d1]
      ELSE [ok |-> TRUE, self |-> d2]

\* the loop over result.data, stopping at the first record that raises
RECURSIVE Keyed_load_loop(_, _)
Keyed_load_loop(d, data) ==
  IF data = <<>> THEN [ok |-> TRUE, self |-> d]
  ELSE LET r == Keyed_load_record(d, Head(data))
       IN  IF r.ok THEN Keyed_load_loop(r.self, Tail(data)) ELSE r

\* load_existing_synonyms without the test of `loaded`
Syn_load_existing_synonyms_always(d, data, queryFails) ==
  IF queryFails \/ ~Keyed_load_loop(d, data).ok
  THEN [failed |-> TRUE, queried |-> TRUE,
        self |-> [d EXCEPT !.existing_base_words = {},
                           !.existing_questions = {},
                           !.loaded = TRUE]]
  ELSE [failed |-> FALSE, queried |-> TRUE,
        self |-> [Keyed_load_loop(d, data).self EXCEPT !.loaded = TRUE]]

\* load_existing_synonyms; queryFails: the execute() call raises
Syn_load_existing_synonyms(d, data, queryFails) ==
  IF d.loaded THEN [failed |-> FALSE, queried |-> FALSE, self |-> d]
  ELSE LET r == Keyed_load_loop(d, data)
       IN  IF queryFails \/ ~r.ok
           THEN [failed |-> TRUE, queried |-> TRUE,
                 self |-> [d EXCEPT !.existing_base_words = {},
                                    !.existing_questions = {},
                                    !.loaded = TRUE]]
           ELSE [failed |-> FALSE, queried |-> TRUE,
                 self |-> [r.self EXCEPT !.loaded = TRUE]]

\* load_existing_antonyms that starts the index with a sample word when
\* the table has no record
Ant_load_existing_antonyms_with_sample(d, data, queryFails) ==
  LET r == Keyed_load_loop(d, data)
  IN  IF queryFails \/ ~r.ok
      THEN [failed |-> TRUE, queried |-> TRUE,
            self |-> [d EXCEPT !.existing_base_words = {},
                               !.existing_questions = {}]]
      ELSE IF data = <<>>
      THEN [failed |-> FALSE, queried |-> TRUE,
            self |-> [d EXCEPT !.existing_base_words = {<<"a">>}]]
      ELSE [failed |-> FALSE, queried |-> TRUE, self |-> r.self]

\* load_existing_antonyms
Ant_load_existing_antonyms(d, data, queryFails) ==
  LET r == Keyed_load_loop(d, data)
  IN  IF queryFails \/ ~r.ok
      THEN [failed |-> TRUE, queried |-> TRUE,
            self |-> [d EXCEPT !.existing_base_words = {},
                               !.existing_questions = {}]]
      ELSE [failed |-> FALSE, queried |-> TRUE, self |-> r.self]

\* is_duplicate of the antonym detector: the returned pair
Ant_is_duplicate(d, base_word, question) ==
  IF ~IsStr(base_word) THEN Raised("AttributeError")
  ELSE IF Lower(base_word) \in d.existing_base_words
  THEN Verdict(TRUE, "Base word already exists", base_word, <<0, 1>>)
  ELSE IF ~IsStr(question) THEN Raised("AttributeError")
  ELSE IF Lower(question) \in d.existing_questions
  THEN Verdict(TRUE, "Question already exists", <<>>, <<0, 1>>)
  ELSE Verdict(FALSE, "Unique antonym item", <<>>, <<0, 1>>)

\* is_duplicate of the synonym detector: the returned pair
Syn_is_duplicate(d, base_word, question) ==
  IF ~IsStr(base_word) THEN Raised("AttributeError")
  ELSE IF Lower(base_word) \in d.existing_base_words
  THEN Verdict(TRUE, "Base word already exists", base_word, <<0, 1>>)
  ELSE IF ~IsStr(question) THEN Raised("AttributeError")
  ELSE IF Lower(question) \in d.existing_questions
  THEN Verdict(TRUE, "Question already exists", <<>>, <<0, 1>>)
  ELSE Verdict(FALSE, "Unique synonym item", <<>>, <<0, 1>>)

\* is_duplicate that also records the word it has just classified unique
Syn_is_duplicate_self_recording(d, base_word, question) ==
  LET v == Syn_is_duplicate(d, base_word, question)
  IN  [d EXCEPT !.total_checks = @ + 1,
                !.duplicates_found = IF v.dup THEN @ + 1 ELSE @,
                !.existing_base_words =
                   IF v.dup \/ v.raised THEN @ ELSE @ \cup {Lower(base_word)}]

\* is_duplicate of the synonym detector: the detector after the call
Syn_is_duplicate_self(d, base_word, question) ==
  LET v == Syn_is_duplicate(d, base_word, question)
  IN  [d EXCEPT !.total_checks = @ + 1,
                !.duplicates_found = IF v.dup THEN @ + 1 ELSE @]

\* add_word storing its arguments as given, without lower()
Keyed_add_word_as_given(d, base_word, question) ==
  [d EXCEPT !.existing_base_words = @ \cup {base_word},
            !.existing_questions = @ \cup {question}]

\* add_word: the same statements in both classes
Keyed_add_word(d, base_word, question) ==
  [d EXCEPT !.existing_base_words = @ \cup {Lower(base_word)},
            !.existing_questions = @ \cup {Lower(question)}]

(***************************************************************************)
(* UniversalDuplicateDetector (readcomp9_gemini.py)                        *)
(***************************************************************************)
\* __init__
Uni_init ==
  [existing_questions |-> {}, existing_passages |-> {},
   existing_concepts |-> {}, question_fingerprints |-> <<>>,
   loaded |-> FALSE, total_checks |-> 0]

\* the fingerprint of a lower-cased, stripped question text
Uni_fingerprint(question_lower) == JoinSplit(RemovePunct(question_lower))

\* the `for field in [...]` loops of load_existing_questions: the set after
\* the fields, or a failure at the first field whose value is not a string
RECURSIVE Uni_load_fields(_, _, _)
Uni_load_fields(set, question_data, fields) ==
  IF fields = <<>> THEN [ok |-> TRUE, set |-> set]
  ELSE LET v == question_data[Head(fields)]
       IN  IF v = Absent
           THEN Uni_load_fields(set, question_data, Tail(fields))
           ELSE IF ~IsStr(v) THEN [ok |-> FALSE, set |-> set]
           ELSE Uni_load_fields(set \cup {Strip(Lower(v))}, question_data,
                                Tail(fields))

\* the body of the `for record in result.data` loop.  A record is
\* [null, data]: data maps every field name to its value or to Absent
Uni_load_record(d, record) ==
  IF record.null THEN [ok |-> TRUE, self |-> d]
  ELSE
  LET question_data == record.data
      q == question_data["question"]
      question_text == Strip(Lower(q))
      d1 == IF q # Absent /\ IsStr(q)
            THEN [d EXCEPT !.existing_questions = @ \cup {question_text},
                           !.question_fingerprints =
                              Append(@, Uni_fingerprint(question_text))]
            ELSE d
      ps == Uni_load_fields(d1.existing_passages, question_data,
                            <<"context", "passage", "context_sentence">>)
      d2 == [d1 EXCEPT !.existing_passages = ps.set]
      cs == Uni_load_fields(d2.existing_concepts, question_data,
                            <<"grammar_concept", "synonym_concept",
                              "antonym_concept">>)
      d3 == [d2 EXCEPT !.existing_concepts = cs.set]
  IN  IF q # Absent /\ ~IsStr(q) THEN [ok |-> FALSE, self |-> d]
      ELSE IF ~ps.ok THEN [ok |-> FALSE, self |-> d2]
      ELSE IF ~cs.ok THEN [ok |-> FALSE, self |-> d3]
      ELSE [ok |-> TRUE, self |-> d3]

\* the loop over result.data, stopping at the first record that raises
RECURSIVE Uni_load_loop(_, _)
Uni_load_loop(d, data) ==
  IF data = <<>> THEN [ok |-> TRUE, self |-> d]
  ELSE LET r == Uni_load_record(d, Head(data))
       IN  IF r.ok THEN Uni_load_loop(r.self, Tail(data)) ELSE r

\* load_existing_questions; queryFails: the execute() call raises.  The
\* except branch only sets `loaded`.
Uni_load_existing_questions(d, data, queryFails) ==
  IF d.loaded THEN [failed |-> FALSE, queried |-> FALSE, self |-> d]
  ELSE IF queryFails
  THEN [failed |-> TRUE, queried |-> TRUE, self |-> [d EXCEPT !.loaded = TRUE]]
  ELSE LET r == Uni_load_loop(d, data)
       IN  [failed |-> ~r.ok, queried |-> TRUE,
            self |-> [r.self EXCEPT !.loaded = TRUE]]

\* the fuzzy loop of is_duplicate: the first retained fingerprint, in list
\* order, whose ratio is above the threshold (0 when there is none)
Uni_fuzzy_hit(d, current_fingerprint) ==
  LET hits == {i \in DOMAIN d.question_fingerprints :
                 QGreater(ratio(current_fingerprint,
                                d.question_fingerprints[i]),
                          FUZZY_SIMILARITY_THRESHOLD)}
  IN  IF hits = {} THEN 0 ELSE Min(hits)

\* is_duplicate running the fuzzy loop before the exact lookups
Uni_is_duplicate_fuzzy_first(d, question_text, passage, concept) ==
  IF ~IsStr(question_text) \/ ~IsStr(passage) \/ ~IsStr(concept)
  THEN Raised("AttributeError")
  ELSE IF Uni_fuzzy_hit(d, Uni_fingerprint(Strip(Lower(question_text)))) # 0
  THEN Verdict(TRUE, "Too similar to existing question", <<>>, <<1, 1>>)
  ELSE IF Strip(Lower(question_text)) \in d.existing_questions
  THEN Verdict(TRUE, "Exact question exists", <<>>, <<0, 1>>)
  ELSE IF Strip(Lower(passage)) \in d.existing_passages
  THEN Verdict(TRUE, "Passage already used", <<>>, <<0, 1>>)
  ELSE Verdict(FALSE, "Unique question", <<>>, <<0, 1>>)

\* is_duplicate without the test of the passage
Uni_is_duplicate_question_only(d, question_text, passage, concept) ==
  IF ~IsStr(question_text) \/ ~IsStr(passage) \/ ~IsStr(concept)
  THEN Raised("AttributeError")
  ELSE
  LET question_lower == Strip(Lower(question_text))
      current_fingerprint == Uni_fingerprint(question_lower)
      hit == Uni_fuzzy_hit(d, current_fingerprint)
  IN  IF question_lower \in d.existing_questions
      THEN Verdict(TRUE, "Exact question exists", <<>>, <<0, 1>>)
      ELSE IF hit # 0
      THEN Verdict(TRUE, "Too similar to existing question", <<>>,
                   ratio(current_fingerprint, d.question_fingerprints[hit]))
      ELSE Verdict(FALSE, "Unique question", <<>>, <<0, 1>>)

\* is_duplicate: the returned pair
Uni_is_duplicate(d, question_text, passage, concept) ==
  IF ~IsStr(question_text) \/ ~IsStr(passage) \/ ~IsStr(concept)
  THEN Raised("AttributeError")
  ELSE
  LET question_lower == Strip(Lower(question_text))
      passage_lower == Strip(Lower(passage))
      current_fingerprint == Uni_fingerprint(question_lower)
      hit == Uni_fuzzy_hit(d, current_fingerprint)
  IN  IF question_lower \in d.existing_questions
      THEN Verdict(TRUE, "Exact question exists", <<>>, <<0, 1>>)
      ELSE IF passage_lower \in d.existing_passages
      THEN Verdict(TRUE, "Passage already used", <<>>, <<0, 1>>)
      ELSE IF hit # 0
      THEN Verdict(TRUE, "Too similar to existing question", <<>>,
                   ratio(current_fingerprint, d.question_fingerprints[hit]))
      ELSE Verdict(FALSE, "Unique question", <<>>, <<0, 1>>)

\* is_duplicate: the detector after the call (only the counter moves)
Uni_is_duplicate_self(d, question_text, passage, concept) ==
  [d EXCEPT !.total_checks = @ + 1]

\* add_question keeping only the fingerprint of the latest question
Uni_add_question_latest_only(d, question_text, passage, concept) ==
  LET question_lower == Strip(Lower(question_text))
  IN  [d EXCEPT !.existing_questions = @ \cup {question_lower},
                !.existing_passages = @ \cup {Strip(Lower(passage))},
                !.existing_concepts = @ \cup {Strip(Lower(concept))},
                !.question_fingerprints = <<Uni_fingerprint(question_lower)>>]

\* add_question
Uni_add_question(d, question_text, passage, concept) ==
  LET question_lower == Strip(Lower(question_text))
  IN  [d EXCEPT !.existing_questions = @ \cup {question_lower},
                !.existing_passages = @ \cup {Strip(Lower(passage))},
                !.existing_concepts = @ \cup {Strip(Lower(concept))},
                !.question_fingerprints =
                   Append(@, Uni_fingerprint(question_lower))]

(***************************************************************************)
(* PassageDuplicateDetector (isee_generator.py)                            *)
(***************************************************************************)
MIN_PASSAGE_LENGTH == 200

\* hashlib.sha256(..).hexdigest() and hashlib.md5(..).hexdigest(): digests
\* are taken to be free of collisions, so a digest is its tagged content
sha256(content) == <<"sha256", content>>
md5(content) == <<"md5", content>>

\* __init__
Pas_init ==
  [existing_passages |-> <<>>, existing_hashes |-> {},
   existing_fingerprints |-> {}]

\* _create_content_hash
Pas_create_content_hash(text) == sha256(CollapseRuns(Strip(Lower(text))))

\* _create_content_fingerprint: '|'.join(sorted(set(words))) is determined
\* by the set of the words longer than 3 characters, which stands for it
Pas_create_content_fingerprint(text) ==
  LET normalized == CollapseRuns(Strip(RemovePunct(Lower(text))))
  IN  md5({w \in WordSet(normalized) : Len(w) > 3})

\* _calculate_fuzzy_similarity
Pas_calculate_fuzzy_similarity(text1, text2) ==
  ratio(RemovePunct(Lower(text1)), RemovePunct(Lower(text2)))

\* the fuzzy loop of is_duplicate: the first retained passage, in list
\* order, whose similarity reaches the threshold (0 when there is none)
Pas_fuzzy_hit(d, new_passage) ==
  LET hits == {i \in DOMAIN d.existing_passages :
                 QGeq(Pas_calculate_fuzzy_similarity(new_passage,
                                                     d.existing_passages[i]),
                      FUZZY_SIMILARITY_THRESHOLD)}
  IN  IF hits = {} THEN 0 ELSE Min(hits)

\* is_duplicate: the returned pair
Pas_is_duplicate(d, passage) ==
  IF passage = NotAString THEN Raised("TypeError")
  ELSE IF passage = None \/ passage = <<>>
          \/ Len(Strip(passage)) < MIN_PASSAGE_LENGTH
  THEN Verdict(TRUE, "Passage too short", <<>>, <<0, 1>>)
  ELSE
  LET new_passage == Strip(passage)
      hit == Pas_fuzzy_hit(d, new_passage)
  IN  IF Pas_create_content_hash(new_passage) \in d.existing_hashes
      THEN Verdict(TRUE, "Exact duplicate (hash match)", <<>>, <<0, 1>>)
      ELSE IF Pas_create_content_fingerprint(new_passage)
                \in d.existing_fingerprints
      THEN Verdict(TRUE, "Near duplicate (fingerprint match)", <<>>, <<0, 1>>)
      ELSE IF hit # 0
      THEN Verdict(TRUE, "High similarity to existing passage", <<>>,
                   Pas_calculate_fuzzy_similarity(new_passage,
                                                  d.existing_passages[hit]))
      ELSE Verdict(FALSE, "Unique passage", <<>>, <<0, 1>>)

\* add_passage
Pas_add_passage(d, passage) ==
  IF passage # None /\ passage # <<>>
     /\ Len(Strip(passage)) > MIN_PASSAGE_LENGTH
  THEN LET p == Strip(passage)
       IN  [d EXCEPT !.existing_passages = Append(@, p),
                     !.existing_hashes = @ \cup {Pas_create_content_hash(p)},
                     !.existing_fingerprints =
                        @ \cup {Pas_create_content_fingerprint(p)}]
  ELSE d

\* the `for record in result.data` loop of load_existing_passages: the list
\* `passages`, or a failure at the first record whose context is not a
\* string.  A record is [null, context].
RECURSIVE Pas_load_loop(_, _)
Pas_load_loop(passages, data) ==
  IF data = <<>> THEN [ok |-> TRUE, passages |-> passages]
  ELSE LET context == Head(data).context
       IN  IF Head(data).null \/ context = Absent \/ context = None
              \/ context = <<>>
           THEN Pas_load_loop(passages, Tail(data))
           ELSE IF context = NotAString
           THEN [ok |-> FALSE, passages |-> passages]
           ELSE IF Len(Strip(context)) > MIN_PASSAGE_LENGTH
           THEN Pas_load_loop(Append(passages, Strip(context)), Tail(data))
           ELSE Pas_load_loop(passages, Tail(data))

\* load_existing_passages; queryFails: the execute() call raises
Pas_load_existing_passages(d, data, queryFails) ==
  LET r == Pas_load_loop(<<>>, data)
  IN  IF queryFails \/ ~r.ok
      THEN [failed |-> TRUE, queried |-> TRUE, self |-> Pas_init]
      ELSE [failed |-> FALSE, queried |-> TRUE,
            self |-> [existing_passages |-> r.passages,
                      existing_hashes |->
                        {Pas_create_content_hash(r.passages[i]) :
                           i \in DOMAIN r.passages},
                      existing_fingerprints |->
                        {Pas_create_content_fingerprint(r.passages[i]) :
                           i \in DOMAIN r.passages}]]

(***************************************************************************)
(* State                                                                   *)
(***************************************************************************)
VARIABLES
  which,      \* the script whose detector or routine the behaviour runs
  pc,         \* position of the script: "new" before initialize_system
  ant,        \* AntonymDuplicateDetector
  syn,        \* SynonymDuplicateDetector
  uni,        \* UniversalDuplicateDetector
  pas,        \* PassageDuplicateDetector
  ret,        \* the last method call: its name, its arguments (for a load
              \* the number of records the query returned) and its outcome
  accepted,   \* the keys add_word / add_question were called with
  store,      \* the rows of the question_cache table, in insertion order
  unique_hash,\* the table rejects a second row with the same question_hash
  runs,       \* the generator processes running against the table
  job,        \* the grammar generator: the passage being generated and saved
  clock,      \* the reading of time.time()
  hashed,     \* the question hashes computed so far
  main        \* the main routine of the script: its position and locals

vars ==
  <<which, pc, ant, syn, uni, pas, ret, accepted, store, unique_hash, runs,
    job, clock, hashed, main>>

\* the main routine has not started
MainIdle == [stage |-> "none"]

\* the grammar generator in process_textbook_chapters, no passage in work:
\* passage is the extracted passage generate_grammar_questions was called
\* with, passage_text the content['passage'] of the response, result what
\* save_questions_to_supabase returned last
JobInit ==
  [stage |-> "loop", passage |-> <<>>, passage_text |-> <<>>,
   questions |-> <<>>, i |-> 0, saved_count |-> 0, attempted |-> {},
   result |-> "none", calls |-> 0]

\* what the detector methods do not touch
OutsideDetectors == <<store, unique_hash, runs, job, clock, hashed, main>>

NoVerdict == Verdict(FALSE, "", <<>>, <<0, 1>>)
Call(op, args, value, failed) ==
  [op |-> op, args |-> args, value |-> value, failed |-> failed]

(***************************************************************************)
(* Inputs                                                                  *)
(***************************************************************************)
Rep(c, n) == [i \in 1 .. n |-> c]

\* base words and question texts of the synonym and antonym items
KeyWords == {<<>>, <<"a">>, <<"A">>, <<"b">>}
KeyQuestions == {<<"c">>, <<"C">>}

KeyedRow(w, q) == [null |-> FALSE, base_word |-> w, question |-> q]
\* what the select on question_cache returns to the keyed detectors
KeyedData ==
  {<<>>,
   <<KeyedRow(<<"a">>, <<"c">>)>>,
   <<KeyedRow(<<"B">>, Absent), KeyedRow(Absent, <<"D">>)>>,
   <<KeyedRow(<<"a">>, <<"c">>), KeyedRow(<<"b">>, None)>>,
   <<[null |-> TRUE, base_word |-> Absent, question |-> Absent],
     KeyedRow(NotAString, <<"d">>)>>}

\* question texts of the unified generator; the last two are 20 characters
\* long and share 17 of them (ratio 0.85)
UniQuestions ==
  {<<>>, <<"a", " ", "b">>, <<"A", " ", "b">>, <<"a", " ", "b", "!">>,
   <<"t", "i", "d", "e">>, <<"d", "i", "e", "t">>,
   Rep("a", 17) \o Rep("b", 3), Rep("a", 17) \o Rep("c", 3)}
\* the question texts add_question is called with
UniAcceptable ==
  {<<"a", " ", "b">>, <<"t", "i", "d", "e">>, Rep("a", 17) \o Rep("b", 3)}
UniPassages == {<<>>, <<"X", " ">>}
UniConcepts == {<<"c">>}

UniFields ==
  {"question", "context", "passage", "context_sentence", "grammar_concept",
   "synonym_concept", "antonym_concept"}
UniRow(q, passage, concept) ==
  [null |-> FALSE,
   data |-> [f \in UniFields |->
               CASE f = "question" -> q
                 [] f = "passage" -> passage
                 [] f = "synonym_concept" -> concept
                 [] OTHER -> Absent]]
UniData ==
  {<<>>,
   <<UniRow(<<"a", " ", "b">>, <<"x">>, <<"c">>)>>,
   <<UniRow(<<"t", "i", "d", "e">>, Absent, Absent),
     UniRow(<<"d", "i", "e", "t">>, None, <<"c">>)>>,
   <<UniRow(Absent, <<"x">>, NotAString)>>,
   <<UniRow(NotAString, <<"x">>, <<"c">>)>>}

\* passages of the grammar generator.  PasA has 202 characters, 200 of them
\* letters; PasCase is PasA in another case; PasPunct is PasA with other
\* punctuation; PasEq (200 characters) shares 170 letters with PasA (ratio
\* 0.85), PasHi 199, PasLow (201 characters) 170 (ratio 340/401)
PasStem == Rep("x", 100) \o <<"b">> \o Rep("x", 69)
PasA == PasStem \o Rep("y", 30) \o <<"!", "!">>
PasCase == Rep("x", 100) \o <<"B">> \o Rep("x", 69) \o Rep("y", 30) \o <<"!", "!">>
PasPunct == PasStem \o Rep("y", 30) \o <<"!">>
PasEq == PasStem \o Rep("z", 30)
PasHi == PasStem \o Rep("y", 29) \o <<"z">>
PasLow == PasStem \o Rep("z", 31)
PasOther == <<" ">> \o Rep("z", 201)
PasShort == <<"a", "b", "c", "d">>
Passages ==
  {<<>>, PasShort, PasA, PasCase, PasPunct, PasEq, PasHi, PasLow, PasOther}
\* the passages add_passage is called with
PasAcceptable == {PasShort, PasA, PasEq, PasLow, PasOther}

PasRow(context) == [null |-> FALSE, context |-> context]
PasData ==
  {<<>>,
   <<PasRow(PasA)>>,
   <<PasRow(PasOther), PasRow(NotAString)>>,
   <<PasRow(PasShort), PasRow(None), [null |-> TRUE, context |-> Absent]>>}

(***************************************************************************)
(* The detectors as the scripts call them: initialize_system loads once,   *)
(* then is_duplicate and add_word / add_question / add_passage             *)
(***************************************************************************)
InitDetectors ==
  /\ which \in {"antonym", "synonym", "unified", "grammar"}
  /\ pc = "new"
  /\ ant = Ant_init
  /\ syn = Syn_init
  /\ uni = Uni_init
  /\ pas = Pas_init
  /\ ret = Call("none", <<>>, NoVerdict, FALSE)
  /\ accepted = {}
  /\ store = <<>>
  /\ unique_hash = FALSE
  /\ runs = <<>>
  /\ job = JobInit
  /\ clock = 0
  /\ hashed = {}
  /\ main = MainIdle

\* AntonymDuplicateDetector.load_existing_antonyms, from initialize_system
AntLoad ==
  /\ which = "antonym" /\ pc = "new"
  /\ \E data \in KeyedData, queryFails \in BOOLEAN :
       LET r == Ant_load_existing_antonyms(ant, data, queryFails)
       IN  /\ ant' = r.self
           /\ ret' = Call("load", <<Len(data)>>, NoVerdict, r.failed)
  /\ pc' = "ready"
  /\ UNCHANGED <<which, syn, uni, pas, accepted>>
  /\ UNCHANGED OutsideDetectors

\* AntonymDuplicateDetector.is_duplicate
AntCheck ==
  /\ which = "antonym" /\ pc = "ready"
  /\ \E w \in KeyWords, q \in KeyQuestions :
       ret' = Call("is_duplicate", <<w, q>>, Ant_is_duplicate(ant, w, q), FALSE)
  /\ UNCHANGED <<which, pc, ant, syn, uni, pas, accepted>>
  /\ UNCHANGED OutsideDetectors

\* AntonymDuplicateDetector.add_word
AntAccept ==
  /\ which = "antonym" /\ pc = "ready"
  /\ Cardinality(accepted) < MaxAccepts
  /\ \E w \in KeyWords, q \in KeyQuestions :
       /\ ant' = Keyed_add_word(ant, w, q)
       /\ accepted' = accepted \cup {w}
       /\ ret' = Call("add_word", <<w, q>>, NoVerdict, FALSE)
  /\ UNCHANGED <<which, pc, syn, uni, pas>>
  /\ UNCHANGED OutsideDetectors

\* SynonymDuplicateDetector.load_existing_synonyms: from initialize_system,
\* and again whenever initialize_system runs again
SynLoad ==
  /\ which = "synonym"
  /\ \E data \in KeyedData, queryFails \in BOOLEAN :
       LET r == Syn_load_existing_synonyms(syn, data, queryFails)
       IN  /\ syn' = r.self
           /\ ret' = Call(IF r.queried THEN "load" ELSE "load_skipped",
                          IF r.queried THEN <<Len(data)>> ELSE <<>>,
                          NoVerdict, r.failed)
  /\ pc' = "ready"
  /\ UNCHANGED <<which, ant, uni, pas, accepted>>
  /\ UNCHANGED OutsideDetectors

\* SynonymDuplicateDetector.is_duplicate
SynCheck ==
  /\ which = "synonym" /\ pc = "ready"
  /\ syn.total_checks < MaxChecks
  /\ \E w \in KeyWords, q \in KeyQuestions :
       /\ ret' = Call("is_duplicate", <<w, q>>, Syn_is_duplicate(syn, w, q),
                      FALSE)
       /\ syn' = Syn_is_duplicate_self(syn, w, q)
  /\ UNCHANGED <<which, pc, ant, uni, pas, accepted>>
  /\ UNCHANGED OutsideDetectors

\* SynonymDuplicateDetector.add_word
SynAccept ==
  /\ which = "synonym" /\ pc = "ready"
  /\ Cardinality(accepted) < MaxAccepts
  /\ \E w \in KeyWords, q \in KeyQuestions :
       /\ syn' = Keyed_add_word(syn, w, q)
       /\ accepted' = accepted \cup {w}
       /\ ret' = Call("add_word", <<w, q>>, NoVerdict, FALSE)
  /\ UNCHANGED <<which, pc, ant, uni, pas>>
  /\ UNCHANGED OutsideDetectors

\* UniversalDuplicateDetector.load_existing_questions
UniLoad ==
  /\ which = "unified"
  /\ \E data \in UniData, queryFails \in BOOLEAN :
       LET r == Uni_load_existing_questions(uni, data, queryFails)
       IN  /\ uni' = r.self
           /\ ret' = Call(IF r.queried THEN "load" ELSE "load_skipped",
                          IF r.queried THEN <<Len(data)>> ELSE <<>>,
                          NoVerdict, r.failed)
  /\ pc' = "ready"
  /\ UNCHANGED <<which, ant, syn, pas, accepted>>
  /\ UNCHANGED OutsideDetectors

\* UniversalDuplicateDetector.is_duplicate
UniCheck ==
  /\ which = "unified" /\ pc = "ready"
  /\ uni.total_checks < MaxChecks
  /\ \E q \in UniQuestions, p \in UniPassages, c \in UniConcepts :
       /\ ret' = Call("is_duplicate", <<q, p, c>>,
                      Uni_is_duplicate(uni, q, p, c), FALSE)
       /\ uni' = Uni_is_duplicate_self(uni, q, p, c)
  /\ UNCHANGED <<which, pc, ant, syn, pas, accepted>>
  /\ UNCHANGED OutsideDetectors

\* UniversalDuplicateDetector.add_question
UniAccept ==
  /\ which = "unified" /\ pc = "ready"
  /\ Len(uni.question_fingerprints) < MaxRetained
  /\ \E q \in UniAcceptable, p \in UniPassages, c \in UniConcepts :
       /\ uni' = Uni_add_question(uni, q, p, c)
       /\ accepted' = accepted \cup {q}
       /\ ret' = Call("add_question", <<q, p, c>>, NoVerdict, FALSE)
  /\ UNCHANGED <<which, pc, ant, syn, pas>>
  /\ UNCHANGED OutsideDetectors

\* PassageDuplicateDetector.load_existing_passages, from initialize_system
PasLoad ==
  /\ which = "grammar" /\ pc = "new"
  /\ \E data \in PasData, queryFails \in BOOLEAN :
       LET r == Pas_load_existing_passages(pas, data, queryFails)
       IN  /\ pas' = r.self
           /\ ret' = Call("load", <<Len(data)>>, NoVerdict, r.failed)
  /\ pc' = "ready"
  /\ UNCHANGED <<which, ant, syn, uni, accepted>>
  /\ UNCHANGED OutsideDetectors

\* PassageDuplicateDetector.is_duplicate
PasCheck ==
  /\ which = "grammar" /\ pc = "ready"
  /\ \E p \in Passages :
       ret' = Call("is_duplicate", <<p>>, Pas_is_duplicate(pas, p), FALSE)
  /\ UNCHANGED <<which, pc, ant, syn, uni, pas, accepted>>
  /\ UNCHANGED OutsideDetectors

\* PassageDuplicateDetector.add_passage
PasAccept ==
  /\ which = "grammar" /\ pc = "ready"
  /\ Len(pas.existing_passages) < MaxRetained
  /\ \E p \in PasAcceptable :
       /\ pas' = Pas_add_passage(pas, p)
       /\ accepted' = accepted \cup {p}
       /\ ret' = Call("add_passage", <<p>>, NoVerdict, FALSE)
  /\ UNCHANGED <<which, pc, ant, syn, uni>>
  /\ UNCHANGED OutsideDetectors

NextDetectors ==
  \/ AntLoad \/ AntCheck \/ AntAccept
  \/ SynLoad \/ SynCheck \/ SynAccept
  \/ UniLoad \/ UniCheck \/ UniAccept
  \/ PasLoad \/ PasCheck \/ PasAccept

SpecDetectors == InitDetectors /\ [][NextDetectors]_vars

(***************************************************************************)
(* Properties of the detectors                                             *)
(***************************************************************************)
SameKey(k1, k2) == Lower(k1) = Lower(k2)

\* C2 (monotonicity): once add_word / add_question was called with a key,
\* is_duplicate with that key in any case and with any question or body
\* returns duplicate with the key-exists reason, in every later state.
C2_Monotonic ==
  \A k \in accepted :
    /\ which = "antonym" =>
         \A w \in KeyWords, q \in KeyQuestions :
           SameKey(w, k) =>
             LET v == Ant_is_duplicate(ant, w, q)
             IN  v.dup /\ v.text = "Base word already exists" /\ v.word = w
    /\ which = "synonym" =>
         \A w \in KeyWords, q \in KeyQuestions :
           SameKey(w, k) =>
             LET v == Syn_is_duplicate(syn, w, q)
             IN  v.dup /\ v.text = "Base word already exists" /\ v.word = w
    /\ which = "unified" =>
         \A q \in UniQuestions, p \in UniPassages, c \in UniConcepts :
           SameKey(q, k) =>
             LET v == Uni_is_duplicate(uni, q, p, c)
             IN  v.dup /\ v.text = "Exact question exists"

\* an is_duplicate call that was answered "key exists" for a key accepted
\* earlier in another case
C2_Witness ==
  /\ which = "synonym"
  /\ ret.op = "is_duplicate"
  /\ ret.args[1] \notin accepted
  /\ \E k \in accepted : SameKey(ret.args[1], k)
  /\ ret.value.dup /\ ret.value.text = "Base word already exists"

\* the sets and lists of the four detectors
IndexState ==
  <<ant.existing_base_words, ant.existing_questions,
    syn.existing_base_words, syn.existing_questions,
    uni.existing_questions, uni.existing_passages, uni.existing_concepts,
    uni.question_fingerprints,
    pas.existing_passages, pas.existing_hashes, pas.existing_fingerprints>>

\* C3 (idempotence of check): an is_duplicate call leaves the index sets
\* and lists as they were, and a call that repeats the arguments of the
\* call just before it returns the same (is_duplicate, reason).
C3_CheckIdempotent ==
  [][ret'.op = "is_duplicate" =>
        /\ IndexState' = IndexState
        /\ (ret.op = "is_duplicate" /\ ret.args = ret'.args) =>
              ret'.value = ret.value]_vars

\* the synonym detector after two is_duplicate calls, the last one unique
C3_Witness ==
  /\ which = "synonym"
  /\ syn.total_checks >= 2
  /\ ret.op = "is_duplicate"
  /\ ~ret.value.dup
  /\ syn.existing_base_words # {}

\* the index of the detector the behaviour runs is empty
IndexEmpty ==
  CASE which = "antonym" ->
         ant.existing_base_words = {} /\ ant.existing_questions = {}
    [] which = "synonym" ->
         syn.existing_base_words = {} /\ syn.existing_questions = {}
    [] which = "unified" ->
         /\ uni.existing_questions = {} /\ uni.existing_passages = {}
         /\ uni.existing_concepts = {} /\ uni.question_fingerprints = <<>>
    [] OTHER ->
         /\ pas.existing_passages = <<>> /\ pas.existing_hashes = {}
         /\ pas.existing_fingerprints = {}

\* C5 (load failure degrades to an empty index): when the load has raised,
\* at the query or at any record, every index structure is empty afterwards.
C5_FailedLoadLeavesEmptyIndex ==
  (ret.op = "load" /\ ret.failed) => IndexEmpty

\* C6 (empty-key rejection): is_duplicate with an empty key returns
\* duplicate in every index state.
C6_EmptyKeyIsDuplicate ==
  /\ which = "antonym" =>
       \A q \in KeyQuestions : Ant_is_duplicate(ant, <<>>, q).dup
  /\ which = "synonym" =>
       \A q \in KeyQuestions : Syn_is_duplicate(syn, <<>>, q).dup
  /\ which = "unified" =>
       \A p \in UniPassages, c \in UniConcepts :
         Uni_is_duplicate(uni, <<>>, p, c).dup
  /\ which = "grammar" => Pas_is_duplicate(pas, <<>>).dup

QEqual(p, q) == p[1] * q[2] = q[1] * p[2]

\* C10 (threshold boundary): a candidate whose ratio to a retained entry is
\* exactly FUZZY_SIMILARITY_THRESHOLD is classified duplicate.
C10_BoundaryIsDuplicate ==
  /\ which = "unified" =>
       \A q \in UniQuestions, p \in UniPassages, c \in UniConcepts :
         (\E i \in DOMAIN uni.question_fingerprints :
            QEqual(ratio(Uni_fingerprint(Strip(Lower(q))),
                         uni.question_fingerprints[i]),
                   FUZZY_SIMILARITY_THRESHOLD))
           => Uni_is_duplicate(uni, q, p, c).dup
  /\ which = "grammar" =>
       \A p \in Passages :
         (/\ Len(Strip(p)) >= MIN_PASSAGE_LENGTH
          /\ \E i \in DOMAIN pas.existing_passages :
               QEqual(Pas_calculate_fuzzy_similarity(Strip(p),
                                                     pas.existing_passages[i]),
                      FUZZY_SIMILARITY_THRESHOLD))
           => Pas_is_duplicate(pas, p).dup

\* list a is an initial part of list b
IsPrefix(a, b) == Len(a) <= Len(b) /\ SubSeq(b, 1, Len(a)) = a

\* C11 (monotonic index): once initialize_system has loaded the index, no
\* step of a detector removes an entry: every set is a subset of its value
\* after the step and every list an initial part of its value after the step.
C11_IndexOnlyGrows ==
  [][pc = "ready" =>
       /\ ant.existing_base_words \subseteq ant'.existing_base_words
       /\ ant.existing_questions \subseteq ant'.existing_questions
       /\ syn.existing_base_words \subseteq syn'.existing_base_words
       /\ syn.existing_questions \subseteq syn'.existing_questions
       /\ uni.existing_questions \subseteq uni'.existing_questions
       /\ uni.existing_passages \subseteq uni'.existing_passages
       /\ uni.existing_concepts \subseteq uni'.existing_concepts
       /\ IsPrefix(uni.question_fingerprints, uni'.question_fingerprints)
       /\ IsPrefix(pas.existing_passages, pas'.existing_passages)
       /\ pas.existing_hashes \subseteq pas'.existing_hashes
       /\ pas.existing_fingerprints \subseteq pas'.existing_fingerprints]_vars

\* the unified detector holds two fingerprints, the second one appended by
\* add_question to the one that was there
C11_Witness ==
  /\ which = "unified"
  /\ ret.op = "add_question"
  /\ Len(uni.question_fingerprints) = 2
  /\ uni.question_fingerprints[2] = Uni_fingerprint(Strip(Lower(ret.args[1])))
  /\ uni.question_fingerprints[1] # uni.question_fingerprints[2]

\* C12 (malformed input): is_duplicate called with None as key, question,
\* passage or concept returns a (bool, reason) pair and raises nothing, in
\* every state of the loaded index.
C12_NeverRaisesOnNone ==
  pc = "ready" =>
    /\ which = "synonym" =>
         \A w \in KeyWords \cup {None}, q \in KeyQuestions \cup {None} :
           ~Syn_is_duplicate(syn, w, q).raised
    /\ which = "unified" =>
         \A q \in UniAcceptable \cup {None}, p \in UniPassages \cup {None},
            c \in UniConcepts \cup {None} :
           ~Uni_is_duplicate(uni, q, p, c).raised
    /\ which = "grammar" => ~Pas_is_duplicate(pas, None).raised

\* C13 (check ordering): a candidate whose question is in the index is
\* reported with the exact-question reason whatever its passage and concept,
\* and a passage whose hash is in the index with the hash-match reason; the
\* similarity reason is returned only when no exact lookup matched.
C13_ExactBeforeFuzzy ==
  /\ which = "unified" =>
       \A q \in UniQuestions, p \in UniPassages, c \in UniConcepts :
         LET v == Uni_is_duplicate(uni, q, p, c)
         IN  /\ Strip(Lower(q)) \in uni.existing_questions =>
                  v.dup /\ v.text = "Exact question exists"
             /\ (\/ Strip(Lower(q)) \in uni.existing_questions
                 \/ Strip(Lower(p)) \in uni.existing_passages) =>
                  v.text # "Too similar to existing question"
  /\ which = "grammar" =>
       \A p \in Passages :
         Len(Strip(p)) >= MIN_PASSAGE_LENGTH =>
           LET v == Pas_is_duplicate(pas, p)
           IN  /\ Pas_create_content_hash(Strip(p)) \in pas.existing_hashes =>
                    v.dup /\ v.text = "Exact duplicate (hash match)"
               /\ (\/ Pas_create_content_hash(Strip(p))
                        \in pas.existing_hashes
                   \/ Pas_create_content_fingerprint(Strip(p))
                        \in pas.existing_fingerprints) =>
                    v.text # "High similarity to existing passage"

\* is_duplicate has answered "Exact question exists" for a question of the
\* index that came with a passage the index does not hold, while the fuzzy
\* loop would have matched the question as well
C13_Witness ==
  /\ which = "unified"
  /\ ret.op = "is_duplicate"
  /\ ret.value.text = "Exact question exists"
  /\ Strip(Lower(ret.args[2])) \notin uni.existing_passages
  /\ Uni_fuzzy_hit(uni, Uni_fingerprint(Strip(Lower(ret.args[1])))) # 0

C16_SimilaritySymmetric ==
  /\ which = "unified" =>
       \A q \in UniQuestions :
         \A i \in DOMAIN uni.question_fingerprints :
           QEqual(ratio(Uni_fingerprint(Strip(Lower(q))),
                        uni.question_fingerprints[i]),
                  ratio(uni.question_fingerprints[i],
                        Uni_fingerprint(Strip(Lower(q)))))
  /\ which = "grammar" =>
       \A p \in PasAcceptable :
         \A i \in DOMAIN pas.existing_passages :
           QEqual(Pas_calculate_fuzzy_similarity(Strip(p),
                                                 pas.existing_passages[i]),
                  Pas_calculate_fuzzy_similarity(pas.existing_passages[i],
                                                 Strip(p)))

\* C23 (the store is read once): a call of load_existing_synonyms or
\* load_existing_questions made after the first one, whether that one
\* succeeded or failed, returns without querying the store and leaves the
\* index as it was.
C23_LoadsOnce ==
  [][(/\ which \in {"synonym", "unified"}
      /\ pc = "ready"
      /\ ret'.op \in {"load", "load_skipped"})
       => (ret'.op = "load_skipped" /\ IndexState' = IndexState)]_vars

\* load_existing_synonyms was called again after a word was accepted, and
\* returned at once
C23_Witness ==
  /\ which = "synonym"
  /\ ret.op = "load_skipped"
  /\ accepted # {}
  /\ \A k \in accepted : Lower(k) \in syn.existing_base_words

\* C25 (accepts what it classifies): when add_passage is called with a
\* passage that is_duplicate classified as unique just before the call,
\* is_duplicate returns duplicate for that passage after the call.
C25_AddedPassageIsDuplicate ==
  [][(/\ which = "grammar"
      /\ ret'.op = "add_passage"
      /\ ~Pas_is_duplicate(pas, ret'.args[1]).dup)
       => Pas_is_duplicate(pas', ret'.args[1]).dup]_vars

(***************************************************************************)
(* Generator runs of isee_antonym.py and isee_synonym.py: one or two       *)
(* processes generate batches and save them to the question_cache table    *)
(***************************************************************************)
Runs == {1, 2}
\* number of generate_*_batch calls in one behaviour
MaxBatches == 2

\* an item of the model response; a missing field is Absent
RunItem(w, q) == [base_word |-> w, question |-> q, correct |-> <<"x">>]
\* the items lists of the model responses
Responses ==
  {<<RunItem(<<"a">>, <<"c">>), RunItem(<<"A">>, <<"d">>)>>,
   <<RunItem(<<"a">>, <<"c">>), RunItem(<<"a">>, <<"c">>)>>,
   <<RunItem(Absent, <<"c">>), RunItem(<<"b">>, <<"c">>)>>,
   <<RunItem(<<"b">>, <<"d">>)>>}
\* min(10, target_words - concept_total)
BatchSizes == {1, 2}

\* generate_content_hash(f"{item['base_word']}|{item['question']}|{item['correct']}")
Keyed_question_hash(item) ==
  sha256(item.base_word \o <<"|">> \o item.question \o <<"|">> \o item.correct)

\* all(field in item for field in required_fields)
HasRequiredFields(item) ==
  item.base_word # Absent /\ item.question # Absent /\ item.correct # Absent

\* the `for item in content['antonym_items']` loop of generate_antonym_batch:
\* valid_items, or the exception is_duplicate raises
RECURSIVE Ant_validate(_, _, _)
Ant_validate(d, items, valid_items) ==
  IF items = <<>> THEN [ok |-> TRUE, valid_items |-> valid_items]
  ELSE IF ~HasRequiredFields(Head(items))
  THEN Ant_validate(d, Tail(items), valid_items)
  ELSE IF Ant_is_duplicate(d, Head(items).base_word, Head(items).question).raised
  THEN [ok |-> FALSE, valid_items |-> valid_items]
  ELSE IF Ant_is_duplicate(d, Head(items).base_word, Head(items).question).dup
  THEN Ant_validate(d, Tail(items), valid_items)
  ELSE Ant_validate(d, Tail(items), Append(valid_items, Head(items)))

\* generate_antonym_batch: the returned list (<<>> for None); the detector
\* is only read
Ant_generate_antonym_batch(d, response, batch_size) ==
  IF Len(response) # batch_size \/ ~Ant_validate(d, response, <<>>).ok
  THEN <<>>
  ELSE Ant_validate(d, response, <<>>).valid_items

\* the `for item in content['synonym_items']` loop of generate_synonym_batch:
\* every item found unique is appended and added to the detector at once
RECURSIVE Syn_validate(_, _, _, _)
Syn_validate(d, items, valid_items, added) ==
  IF items = <<>>
  THEN [ok |-> TRUE, valid_items |-> valid_items, self |-> d, added |-> added]
  ELSE IF ~HasRequiredFields(Head(items))
  THEN Syn_validate(d, Tail(items), valid_items, added)
  ELSE IF Syn_is_duplicate(d, Head(items).base_word, Head(items).question).raised
  THEN [ok |-> FALSE, valid_items |-> valid_items, self |-> d, added |-> added]
  ELSE IF Syn_is_duplicate(d, Head(items).base_word, Head(items).question).dup
  THEN Syn_validate(
         Syn_is_duplicate_self(d, Head(items).base_word, Head(items).question),
         Tail(items), valid_items, added)
  ELSE Syn_validate(
         Keyed_add_word(
           Syn_is_duplicate_self(d, Head(items).base_word,
                                 Head(items).question),
           Head(items).base_word, Head(items).question),
         Tail(items), Append(valid_items, Head(items)),
         added \cup {Head(items)})

\* generate_synonym_batch: the returned list (<<>> for None), the detector
\* after the call and the items add_word was called with
Syn_generate_synonym_batch(d, response, batch_size) ==
  IF Len(response) # batch_size
  THEN [ok |-> FALSE, valid_items |-> <<>>, self |-> d, added |-> {}]
  ELSE Syn_validate(d, response, <<>>, {})

\* a process after initialize_system on the empty table, in the main loop
RunInit(d) ==
  [det |-> d, stage |-> "idle", items |-> <<>>, i |-> 0, saved_count |-> 0,
   checked_at |-> 0, added |-> {}, batches |-> 0]

\* a process enters save_*_to_supabase with the list the batch returned, or
\* stays in the main loop when the batch returned None
RunSave(run, valid_items) ==
  IF valid_items = <<>> THEN [run EXCEPT !.batches = @ + 1]
  ELSE [run EXCEPT !.batches = @ + 1, !.stage = "check",
                   !.items = valid_items, !.i = 1, !.saved_count = 0]

\* the end of one pass of the `for item in ..._items` loop: the next item,
\* or the return to the main loop
Keyed_save_next(run) ==
  IF run.i < Len(run.items)
  THEN [run EXCEPT !.i = @ + 1, !.stage = "check"]
  ELSE [run EXCEPT !.i = 0, !.stage = "idle", !.items = <<>>]

\* the select on question_hash that does not look at its result
Keyed_save_check_unchecked(run, table, raises) ==
  IF raises THEN Keyed_save_next(run)
  ELSE [run EXCEPT !.stage = "insert", !.checked_at = Len(table)]

\* the select on question_hash and `if existing.data: continue`; raises: the
\* execute() call raises and the except branch ends the pass
Keyed_save_check(run, table, raises) ==
  IF raises THEN Keyed_save_next(run)
  ELSE IF \E k \in DOMAIN table :
            table[k].question_hash = Keyed_question_hash(run.items[run.i])
  THEN Keyed_save_next(run)
  ELSE [run EXCEPT !.stage = "insert", !.checked_at = Len(table)]

\* the table rejects the insert of a question_hash it already holds
Rejected(table, question_hash) ==
  unique_hash /\ \E k \in DOMAIN table : table[k].question_hash = question_hash

\* the row an insert writes, with the process that wrote it and the size of
\* the table when that process ran its select
StoreRow(item, r, checked_at) ==
  [question_hash |-> Keyed_question_hash(item), base_word |-> item.base_word,
   by |-> r, checked_at |-> checked_at]

\* the statements after a successful insert: saved_count += 1 and add_word
Keyed_save_inserted(run) ==
  Keyed_save_next(
    [run EXCEPT !.saved_count = @ + 1,
                !.det = Keyed_add_word(@, run.items[run.i].base_word,
                                       run.items[run.i].question),
                !.added = @ \cup {run.items[run.i]}])

OutsideRuns ==
  <<which, pc, ant, syn, uni, pas, ret, accepted, unique_hash, job, clock,
    hashed, main>>

InitRuns ==
  /\ which \in {"antonym", "synonym"}
  /\ pc = "ready"
  /\ ant = Ant_init
  /\ syn = Syn_init
  /\ uni = Uni_init
  /\ pas = Pas_init
  /\ ret = Call("none", <<>>, NoVerdict, FALSE)
  /\ accepted = {}
  /\ store = <<>>
  /\ unique_hash \in BOOLEAN
  /\ runs = [r \in Runs |->
               RunInit(IF which = "antonym"
                       THEN Ant_load_existing_antonyms(Ant_init, <<>>,
                                                       FALSE).self
                       ELSE Syn_load_existing_synonyms(Syn_init, <<>>,
                                                       FALSE).self)]
  /\ job = JobInit
  /\ clock = 0
  /\ hashed = {}
  /\ main = MainIdle

\* generate_antonym_batch, and the call of save_antonyms_to_supabase
AntGenerate(r) ==
  /\ which = "antonym" /\ runs[r].stage = "idle"
  /\ runs[1].batches + runs[2].batches < MaxBatches
  /\ \E response \in Responses, batch_size \in BatchSizes :
       runs' = [runs EXCEPT ![r] =
                  RunSave(@, Ant_generate_antonym_batch(@.det, response,
                                                        batch_size))]
  /\ UNCHANGED store
  /\ UNCHANGED OutsideRuns

\* save_antonyms_to_supabase: the select on question_hash for one item
AntSaveCheck(r) ==
  /\ which = "antonym" /\ runs[r].stage = "check"
  /\ \E raises \in BOOLEAN :
       runs' = [runs EXCEPT ![r] = Keyed_save_check(@, store, raises)]
  /\ UNCHANGED store
  /\ UNCHANGED OutsideRuns

\* save_antonyms_to_supabase: the insert of one item and what follows it
AntSaveInsert(r) ==
  /\ which = "antonym" /\ runs[r].stage = "insert"
  /\ \E raises \in BOOLEAN :
       IF raises \/ Rejected(store, Keyed_question_hash(runs[r].items[runs[r].i]))
       THEN /\ runs' = [runs EXCEPT ![r] = Keyed_save_next(@)]
            /\ UNCHANGED store
       ELSE /\ store' = Append(store, StoreRow(runs[r].items[runs[r].i], r,
                                               runs[r].checked_at))
            /\ runs' = [runs EXCEPT ![r] = Keyed_save_inserted(@)]
  /\ UNCHANGED OutsideRuns

\* generate_synonym_batch, and the call of save_synonyms_to_supabase
SynGenerate(r) ==
  /\ which = "synonym" /\ runs[r].stage = "idle"
  /\ runs[1].batches + runs[2].batches < MaxBatches
  /\ \E response \in Responses, batch_size \in BatchSizes :
       runs' = [runs EXCEPT ![r] =
                  RunSave(
                    [runs[r] EXCEPT
                       !.det = Syn_generate_synonym_batch(
                                 runs[r].det, response, batch_size).self,
                       !.added = runs[r].added
                                 \cup Syn_generate_synonym_batch(
                                        runs[r].det, response,
                                        batch_size).added],
                    IF Syn_generate_synonym_batch(runs[r].det, response,
                                                  batch_size).ok
                    THEN Syn_generate_synonym_batch(runs[r].det, response,
                                                    batch_size).valid_items
                    ELSE <<>>)]
  /\ UNCHANGED store
  /\ UNCHANGED OutsideRuns

\* save_synonyms_to_supabase: the select on question_hash for one item
SynSaveCheck(r) ==
  /\ which = "synonym" /\ runs[r].stage = "check"
  /\ \E raises \in BOOLEAN :
       runs' = [runs EXCEPT ![r] = Keyed_save_check(@, store, raises)]
  /\ UNCHANGED store
  /\ UNCHANGED OutsideRuns

\* save_synonyms_to_supabase: the insert of one item and what follows it
SynSaveInsert(r) ==
  /\ which = "synonym" /\ runs[r].stage = "insert"
  /\ \E raises \in BOOLEAN :
       IF raises \/ Rejected(store, Keyed_question_hash(runs[r].items[runs[r].i]))
       THEN /\ runs' = [runs EXCEPT ![r] = Keyed_save_next(@)]
            /\ UNCHANGED store
       ELSE /\ store' = Append(store, StoreRow(runs[r].items[runs[r].i], r,
                                               runs[r].checked_at))
            /\ runs' = [runs EXCEPT ![r] = Keyed_save_inserted(@)]
  /\ UNCHANGED OutsideRuns

NextRuns ==
  \E r \in Runs :
    \/ AntGenerate(r) \/ AntSaveCheck(r) \/ AntSaveInsert(r)
    \/ SynGenerate(r) \/ SynSaveCheck(r) \/ SynSaveInsert(r)

SpecRuns == InitRuns /\ [][NextRuns]_vars

(***************************************************************************)
(* Properties of the generator runs                                        *)
(***************************************************************************)
\* C1 (no duplicate among the persisted items of one run): no two rows that
\* one antonym generator process has inserted share the lower-cased
\* base_word.
C1_PersistedKeysDistinct ==
  which = "antonym" =>
    \A k1, k2 \in DOMAIN store :
      (k1 # k2 /\ store[k1].by = store[k2].by)
        => Lower(store[k1].base_word) # Lower(store[k2].base_word)

\* C4 (accept follows persistence): when a process is back in its main loop,
\* every item it has called add_word with is in a row that process inserted.
C4_AcceptFollowsPersistence ==
  \A r \in DOMAIN runs :
    runs[r].stage = "idle" =>
      \A item \in runs[r].added :
        \E k \in DOMAIN store :
          /\ store[k].by = r
          /\ store[k].question_hash = Keyed_question_hash(item)

\* C9 (concurrent runs), as stated: no two rows of the table have the same
\* question_hash.
C9_NoDoubleInsert ==
  \A k1, k2 \in DOMAIN store :
    k1 # k2 => store[k1].question_hash # store[k2].question_hash

\* C9 (concurrent runs), amended: a process inserts a question_hash only
\* when its select ran on a table without it, so two rows share a
\* question_hash only when the select of the later row ran before the
\* earlier row was inserted, by another process.
C9_DoubleInsertOnlyByRace ==
  /\ \A r \in DOMAIN runs :
       runs[r].stage = "insert" =>
         \A k \in 1 .. runs[r].checked_at :
           store[k].question_hash
             # Keyed_question_hash(runs[r].items[runs[r].i])
  /\ \A k1, k2 \in DOMAIN store :
       (k1 < k2 /\ store[k1].question_hash = store[k2].question_hash)
         => store[k2].checked_at < k1 /\ store[k1].by # store[k2].by

\* two synonym generator processes have each inserted the same
\* question_hash, the later one after a select that ran on the empty table
C9_Witness ==
  /\ which = "synonym"
  /\ \E k1, k2 \in DOMAIN store :
       /\ k1 < k2
       /\ store[k1].question_hash = store[k2].question_hash
       /\ store[k1].by # store[k2].by
       /\ store[k2].checked_at = 0

(***************************************************************************)
(* The grammar generator (isee_generator.py): generate_grammar_questions   *)
(* and save_questions_to_supabase on one passage after another             *)
(***************************************************************************)
GraQuestion(q) == [question |-> q, correct |-> <<"x">>]
\* content['questions'] of the model responses: five questions, five
\* questions two of which are the same, four questions
QuestionLists ==
  {<<GraQuestion(<<"a">>), GraQuestion(<<"b">>), GraQuestion(<<"c">>),
     GraQuestion(<<"d">>), GraQuestion(<<"e">>)>>,
   <<GraQuestion(<<"a">>), GraQuestion(<<"a">>), GraQuestion(<<"c">>),
     GraQuestion(<<"d">>), GraQuestion(<<"e">>)>>,
   <<GraQuestion(<<"a">>), GraQuestion(<<"b">>), GraQuestion(<<"c">>),
     GraQuestion(<<"d">>)>>}
\* what extract_passage returns, and content['passage'] of the responses
ExtractedPassages == {PasA, PasOther, PasShort}
EchoedPassages == {PasA, PasShort}

\* generate_content_hash(f"{passage_text}|{q['question']}|{q['correct']}")
Gra_question_hash(passage_text, q) ==
  sha256(passage_text \o <<"|">> \o q.question \o <<"|">> \o q.correct)

\* generate_grammar_questions returns content rather than None
Gra_generate_grammar_questions(d, passage, questions) ==
  Len(questions) = 5 /\ ~Pas_is_duplicate(d, passage).dup

\* save_questions_to_supabase returns: the except branch, or the end of the
\* function
Gra_save_return(j, value) ==
  [j EXCEPT !.stage = "loop", !.result = value]

\* the end of one pass of the `for i, q in enumerate(questions)` loop
Gra_save_next(j) ==
  IF j.i < Len(j.questions) THEN [j EXCEPT !.i = @ + 1, !.stage = "check"]
  ELSE Gra_save_return(j, IF j.saved_count > 0 THEN "True" ELSE "False")

\* the select on question_hash of one pass; raises: execute() raises, which
\* the `except Exception` around the loop answers with `return False`
Gra_save_check(j, table, raises) ==
  IF raises THEN Gra_save_return([j EXCEPT !.attempted = @ \cup {j.i}], "False")
  ELSE IF \E k \in DOMAIN table :
            table[k].question_hash
              = Gra_question_hash(j.passage_text, j.questions[j.i])
  THEN Gra_save_next([j EXCEPT !.attempted = @ \cup {j.i}])
  ELSE [j EXCEPT !.attempted = @ \cup {j.i}, !.stage = "insert"]

OutsideGrammar ==
  <<which, pc, ant, syn, uni, ret, accepted, unique_hash, runs, clock, hashed,
    main>>

InitGrammar ==
  /\ which = "grammar"
  /\ pc = "ready"
  /\ ant = Ant_init
  /\ syn = Syn_init
  /\ uni = Uni_init
  /\ pas = Pas_load_existing_passages(Pas_init, <<>>, FALSE).self
  /\ ret = Call("none", <<>>, NoVerdict, FALSE)
  /\ accepted = {}
  /\ store = <<>>
  /\ unique_hash \in BOOLEAN
  /\ runs = <<>>
  /\ job = JobInit
  /\ clock = 0
  /\ hashed = {}
  /\ main = MainIdle

\* one attempt of process_textbook_chapters: generate_grammar_questions on
\* an extracted passage, and the call of save_questions_to_supabase when it
\* returns content
GraGenerate ==
  /\ job.stage = "loop" /\ job.calls < MaxBatches
  /\ \E passage \in ExtractedPassages, echoed \in EchoedPassages,
        questions \in QuestionLists :
       IF Gra_generate_grammar_questions(pas, passage, questions)
       THEN job' = [job EXCEPT !.stage = "check", !.passage = passage,
                               !.passage_text = echoed,
                               !.questions = questions, !.i = 1,
                               !.saved_count = 0, !.attempted = {},
                               !.result = "none", !.calls = @ + 1]
       ELSE job' = [job EXCEPT !.calls = @ + 1]
  /\ UNCHANGED <<pas, store>>
  /\ UNCHANGED OutsideGrammar

\* save_questions_to_supabase: the select on question_hash for one question
GraSaveCheck ==
  /\ job.stage = "check"
  /\ \E raises \in BOOLEAN :
       /\ job' = Gra_save_check(job, store, raises)
       /\ pas' = IF job'.stage = "loop" /\ job'.result = "True"
                 THEN Pas_add_passage(pas, job.passage_text) ELSE pas
  /\ UNCHANGED store
  /\ UNCHANGED OutsideGrammar

\* save_questions_to_supabase: the insert of one question and what follows
\* it, add_passage after the last question
GraSaveInsert ==
  /\ job.stage = "insert"
  /\ \E raises \in BOOLEAN :
       IF raises
          \/ Rejected(store, Gra_question_hash(job.passage_text,
                                               job.questions[job.i]))
       THEN /\ job' = Gra_save_return(job, "False")
            /\ UNCHANGED <<pas, store>>
       ELSE /\ store' =
                 Append(store,
                        [question_hash |->
                           Gra_question_hash(job.passage_text,
                                             job.questions[job.i]),
                         base_word |-> Absent, by |-> 1,
                         checked_at |-> Len(store)])
            /\ job' = Gra_save_next([job EXCEPT !.saved_count = @ + 1])
            /\ pas' = IF job'.stage = "loop"
                      THEN Pas_add_passage(pas, job.passage_text) ELSE pas
  /\ UNCHANGED OutsideGrammar

NextGrammar == GraGenerate \/ GraSaveCheck \/ GraSaveInsert

SpecGrammar == InitGrammar /\ [][NextGrammar]_vars

\* C7 (store-rejected write): when save_questions_to_supabase has returned,
\* the select or the insert of every question of the batch has been
\* attempted.
C7_EveryItemAttempted ==
  (job.stage = "loop" /\ job.result # "none")
    => job.attempted = DOMAIN job.questions

\* C22 (the recorded passage is the checked passage): once
\* save_questions_to_supabase has returned True for a chapter, is_duplicate
\* on the passage extracted for that chapter returns duplicate.
C22_SavedPassageIsDuplicate ==
  (job.stage = "loop" /\ job.result = "True")
    => Pas_is_duplicate(pas, job.passage).dup

(***************************************************************************)
(* The question hashes of vocabulary_generator_large.py,                   *)
(* vocabulary_generator_safe.py and question_generator.py                  *)
(***************************************************************************)
\* number of readings the clock takes after the first
MaxClock == 2
\* number of hashes kept in one behaviour
MaxHashed == 2

\* str() of a natural number
Digit(d) == <<"0", "1", "2", "3", "4", "5", "6", "7", "8", "9">>[d + 1]
RECURSIVE Str(_)
Str(n) == IF n < 10 THEN <<Digit(n)>> ELSE Str(n \div 10) \o <<Digit(n % 10)>>

\* question texts and configurations of the vocabulary generators
HashTexts == {<<"a">>, <<"a", "_", "t">>}
HashConfigs ==
  {[topic |-> <<"t">>, grade |-> 5, difficulty |-> 1, mood |-> <<"m">>],
   [topic |-> <<"t">>, grade |-> 5, difficulty |-> 10, mood |-> <<"m">>]}

\* LargeVocabularyGenerator.generate_hash; now: what time.time() returns,
\* the number of the clock reading
Large_generate_hash(question_text, config, now) ==
  md5(question_text \o <<"_">> \o config.topic \o <<"_">> \o Str(config.grade)
      \o <<"_">> \o Str(config.difficulty) \o <<"_">> \o Str(now))

\* SafeVocabularyGenerator.generate_hash
Safe_generate_hash(question_text, config) ==
  md5(question_text \o <<"_">> \o config.topic \o <<"_">> \o Str(config.grade)
      \o <<"_">> \o Str(config.difficulty))

\* QuestionGenerator._generate_hash
Question_generate_hash(question_text, config) ==
  md5(question_text \o <<"_">> \o config.topic \o <<"_">> \o Str(config.grade)
      \o <<"_">> \o Str(config.difficulty) \o <<"_">> \o config.mood)

Hashed(by, question_text, config, question_hash) ==
  [by |-> by, question_text |-> question_text, config |-> config,
   question_hash |-> question_hash]

OutsideHash ==
  <<which, pc, ant, syn, uni, pas, ret, accepted, store, unique_hash, runs,
    job, main>>

InitHash ==
  /\ which = "vocabulary"
  /\ pc = "ready"
  /\ ant = Ant_init
  /\ syn = Syn_init
  /\ uni = Uni_init
  /\ pas = Pas_init
  /\ ret = Call("none", <<>>, NoVerdict, FALSE)
  /\ accepted = {}
  /\ store = <<>>
  /\ unique_hash = FALSE
  /\ runs = <<>>
  /\ job = JobInit
  /\ clock = 0
  /\ hashed = {}
  /\ main = MainIdle

\* time passes: between two calls, or between two runs of the script
Tick ==
  /\ clock < MaxClock
  /\ clock' = clock + 1
  /\ UNCHANGED hashed
  /\ UNCHANGED OutsideHash

\* LargeVocabularyGenerator.generate_hash
LargeHash ==
  /\ Cardinality(hashed) < MaxHashed
  /\ \E question_text \in HashTexts, config \in HashConfigs :
       hashed' = hashed \cup
                   {Hashed("large", question_text, config,
                           Large_generate_hash(question_text, config, clock))}
  /\ UNCHANGED clock
  /\ UNCHANGED OutsideHash

\* SafeVocabularyGenerator.generate_hash
SafeHash ==
  /\ Cardinality(hashed) < MaxHashed
  /\ \E question_text \in HashTexts, config \in HashConfigs :
       hashed' = hashed \cup
                   {Hashed("safe", question_text, config,
                           Safe_generate_hash(question_text, config))}
  /\ UNCHANGED clock
  /\ UNCHANGED OutsideHash

\* QuestionGenerator._generate_hash
QuestionHash ==
  /\ Cardinality(hashed) < MaxHashed
  /\ \E question_text \in HashTexts, config \in HashConfigs :
       hashed' = hashed \cup
                   {Hashed("question", question_text, config,
                           Question_generate_hash(question_text, config))}
  /\ UNCHANGED clock
  /\ UNCHANGED OutsideHash

NextHash == Tick \/ LargeHash \/ SafeHash \/ QuestionHash

SpecHash == InitHash /\ [][NextHash]_vars

\* C8 (hash stability): two hashes computed by the same generator for the
\* same question text and configuration are equal.
C8_HashIsFunctionOfContent ==
  \A e1, e2 \in hashed :
    (/\ e1.by = e2.by
     /\ e1.question_text = e2.question_text
     /\ e1.config = e2.config)
      => e1.question_hash = e2.question_hash

(***************************************************************************)
(* SupabasePopulator.generate_and_populate (question_generator.py)         *)
(***************************************************************************)
\* the questions_per_config argument
QuestionsPerConfig == 2
\* the batch_size arguments tried
PopBatchSizes == {1, 2}

\* the configurations built from topics x grades x difficulties x moods;
\* generate_question raises ValueError for the topic "u"
PopConfig(topic) ==
  [topic |-> topic, grade |-> 5, difficulty |-> 1, mood |-> <<"m">>]
PopConfigLists ==
  {<<PopConfig(<<"t">>)>>, <<PopConfig(<<"u">>), PopConfig(<<"t">>)>>}
\* the question texts the templates of generate_question can produce
PopTexts == {<<"a">>, <<"b">>}

\* a GeneratedQuestion, with the configuration it is queued with
PopQuestion(question_text, config) ==
  [question_text |-> question_text, config |-> config,
   question_hash |-> Question_generate_hash(question_text, config)]

\* a row of question_cache as this script writes it
PopRow(q) ==
  [question_hash |-> q.question_hash, base_word |-> q.question_text,
   by |-> 0, checked_at |-> 0]

\* the tables the script can find at its start
PopTables == {<<>>, <<PopRow(PopQuestion(<<"a">>, PopConfig(<<"t">>)))>>}

\* the locals of generate_and_populate at its first statement
PopInit(configs, batch_size, check_duplicates) ==
  [stage |-> "fetch", configs |-> configs, batch_size |-> batch_size,
   check_duplicates |-> check_duplicates, load_failed |-> FALSE,
   snapshot |-> {}, existing_hashes |-> {}, all_questions |-> <<>>,
   c |-> 1, n |-> 0, i |-> 0,
   total_questions |-> 0, successful_inserts |-> 0, duplicate_count |-> 0,
   errors |-> 0]

\* the fetch of the existing hashes; raises: the select fails
Pop_fetch(m, table, raises) ==
  IF ~m.check_duplicates THEN [m EXCEPT !.stage = "generate"]
  ELSE IF raises
  THEN [m EXCEPT !.stage = "generate", !.check_duplicates = FALSE,
                 !.load_failed = TRUE]
  ELSE LET hashes == {table[k].question_hash : k \in DOMAIN table}
       IN  [m EXCEPT !.stage = "generate", !.existing_hashes = hashes,
                     !.snapshot = hashes]

\* the loops over configs and range(questions_per_config) move on; next_c:
\* the configuration of the next iteration, next_n: its iteration number
Pop_advance(m, next_c, next_n) ==
  [m EXCEPT !.c = next_c, !.n = next_n,
            !.stage = IF next_c > Len(m.configs) THEN "insert" ELSE @]

\* the iteration without the update of existing_hashes
Pop_generate_without_session_hashes(m, question_text) ==
  LET config == m.configs[m.c]
      question == PopQuestion(question_text, config)
      next_c == IF m.n + 1 = QuestionsPerConfig THEN m.c + 1 ELSE m.c
      next_n == IF m.n + 1 = QuestionsPerConfig THEN 0 ELSE m.n + 1
  IN  IF config.topic = <<"u">>
      THEN Pop_advance([m EXCEPT !.errors = @ + 1], m.c + 1, 0)
      ELSE IF m.check_duplicates
              /\ question.question_hash \in m.existing_hashes
      THEN Pop_advance([m EXCEPT !.duplicate_count = @ + 1], next_c, next_n)
      ELSE Pop_advance(
             [m EXCEPT !.all_questions = Append(@, question),
                       !.total_questions = @ + 1],
             next_c, next_n)

\* one iteration of `for _ in range(questions_per_config)`; question_text:
\* the text generate_question builds for the configuration
Pop_generate(m, question_text) ==
  LET config == m.configs[m.c]
      question == PopQuestion(question_text, config)
      next_c == IF m.n + 1 = QuestionsPerConfig THEN m.c + 1 ELSE m.c
      next_n == IF m.n + 1 = QuestionsPerConfig THEN 0 ELSE m.n + 1
  IN  IF config.topic = <<"u">>
      THEN Pop_advance([m EXCEPT !.errors = @ + 1], m.c + 1, 0)
      ELSE IF m.check_duplicates
              /\ question.question_hash \in m.existing_hashes
      THEN Pop_advance([m EXCEPT !.duplicate_count = @ + 1], next_c, next_n)
      ELSE Pop_advance(
             [m EXCEPT !.all_questions = Append(@, question),
                       !.total_questions = @ + 1,
                       !.existing_hashes =
                          IF m.check_duplicates
                          THEN @ \cup {question.question_hash} ELSE @],
             next_c, next_n)

\* all_questions[i:i + batch_size]
Pop_batch(m) ==
  SubSeq(m.all_questions, m.i + 1,
         IF m.i + m.batch_size < Len(m.all_questions)
         THEN m.i + m.batch_size ELSE Len(m.all_questions))

\* the table rejects the insert of the rows: a hash is in the table already
\* or twice among the rows
PopConflict(table, rows) ==
  \/ \E k \in DOMAIN rows, j \in DOMAIN table :
       rows[k].question_hash = table[j].question_hash
  \/ \E k, j \in DOMAIN rows :
       k # j /\ rows[k].question_hash = rows[j].question_hash

\* the individual inserts after a rejected batch: the table and the number
\* of rows inserted, each row rejected when its hash is in the table
RECURSIVE Pop_insert_individually(_, _, _)
Pop_insert_individually(table, rows, inserted) ==
  IF rows = <<>> THEN [table |-> table, inserted |-> inserted]
  ELSE IF PopConflict(table, <<Head(rows)>>)
  THEN Pop_insert_individually(table, Tail(rows), inserted)
  ELSE Pop_insert_individually(Append(table, Head(rows)), Tail(rows),
                               inserted + 1)

\* one iteration of `for i in range(0, len(all_questions), batch_size)`:
\* the locals and the table after it; raises: the insert fails with an
\* error that is not a duplicate-key error
Pop_insert_batch(m, table, unique, raises) ==
  LET batch == Pop_batch(m)
      batch_data == [k \in DOMAIN batch |-> PopRow(batch[k])]
      one_by_one == Pop_insert_individually(table, batch_data, 0)
      next_i == m.i + m.batch_size
      m1 == [m EXCEPT !.i = next_i,
                      !.stage = IF next_i >= Len(m.all_questions)
                                THEN "done" ELSE @]
  IN  IF raises
      THEN [table |-> table, main |-> [m1 EXCEPT !.errors = @ + 1]]
      ELSE IF unique /\ PopConflict(table, batch_data)
      THEN [table |-> one_by_one.table,
            main |-> [m1 EXCEPT
                        !.successful_inserts = @ + one_by_one.inserted,
                        !.duplicate_count =
                           @ + Len(batch_data) - one_by_one.inserted]]
      ELSE [table |-> table \o batch_data,
            main |-> [m1 EXCEPT !.successful_inserts = @ + Len(batch_data)]]

OutsidePopulate ==
  <<which, pc, ant, syn, uni, pas, ret, accepted, unique_hash, runs, job,
    clock, hashed>>

InitPopulate ==
  /\ which = "questions"
  /\ pc = "ready"
  /\ ant = Ant_init
  /\ syn = Syn_init
  /\ uni = Uni_init
  /\ pas = Pas_init
  /\ ret = Call("none", <<>>, NoVerdict, FALSE)
  /\ accepted = {}
  /\ store \in PopTables
  /\ unique_hash \in BOOLEAN
  /\ runs = <<>>
  /\ job = JobInit
  /\ clock = 0
  /\ hashed = {}
  /\ \E configs \in PopConfigLists, batch_size \in PopBatchSizes,
        check_duplicates \in BOOLEAN :
       main = PopInit(configs, batch_size, check_duplicates)

\* the select of the existing question hashes
PopFetch ==
  /\ main.stage = "fetch"
  /\ \E raises \in BOOLEAN : main' = Pop_fetch(main, store, raises)
  /\ UNCHANGED store
  /\ UNCHANGED OutsidePopulate

\* one question is generated, and queued or skipped
PopGenerate ==
  /\ main.stage = "generate"
  /\ \E question_text \in PopTexts : main' = Pop_generate(main, question_text)
  /\ UNCHANGED store
  /\ UNCHANGED OutsidePopulate

\* the queue is empty: the insert loop has no iteration
PopNothingQueued ==
  /\ main.stage = "insert"
  /\ main.all_questions = <<>>
  /\ main' = [main EXCEPT !.stage = "done"]
  /\ UNCHANGED store
  /\ UNCHANGED OutsidePopulate

\* one batch is inserted
PopInsertBatch ==
  /\ main.stage = "insert"
  /\ main.all_questions # <<>>
  /\ \E raises \in BOOLEAN :
       LET r == Pop_insert_batch(main, store, unique_hash, raises)
       IN  main' = r.main /\ store' = r.table
  /\ UNCHANGED OutsidePopulate

NextPopulate == PopFetch \/ PopGenerate \/ PopNothingQueued \/ PopInsertBatch

SpecPopulate == InitPopulate /\ [][NextPopulate]_vars

\* the hashes of the questions queued for insertion are pairwise distinct
PopQueueDistinct ==
  \A k, j \in DOMAIN main.all_questions :
    k # j =>
      main.all_questions[k].question_hash
        # main.all_questions[j].question_hash

\* C14 (degraded mode): when the fetch of the existing hashes has failed,
\* the run still rejects a candidate whose hash equals that of a question
\* queued earlier in the run, so the queued hashes are pairwise distinct.
C14_DegradedRunDeduplicates == main.load_failed => PopQueueDistinct

\* C27 (queue of a checked run): when duplicate checking is enabled and the
\* existing hashes were fetched, the questions queued for insertion have
\* pairwise distinct hashes, none of them is among the fetched hashes, and
\* total_questions is the length of the queue.
C27_QueueDistinctAndCounted ==
  (main.check_duplicates /\ main.stage # "fetch") =>
    /\ PopQueueDistinct
    /\ \A k \in DOMAIN main.all_questions :
         main.all_questions[k].question_hash \notin main.snapshot
    /\ main.total_questions = Len(main.all_questions)

\* a checked run that fetched the hash of the one row of the table has
\* skipped one generated question as a duplicate and queued one question
C27_Witness ==
  /\ main.check_duplicates
  /\ main.stage = "insert"
  /\ main.snapshot # {}
  /\ Len(main.configs) = 2
  /\ main.duplicate_count = 1
  /\ Len(main.all_questions) = 1
  /\ main.total_questions = 1

(***************************************************************************)
(* The per-concept generation loops of the main routines: isee_synonym.py, *)
(* isee_antonym.py, isee_spellbee.py, isee_vocab.py, readcomp9_gemini.py   *)
(* and the per-chapter loop of isee_generator.py.  A generation call and   *)
(* the save call that follows it are one step; what the model and the      *)
(* store make of them is the number of items returned and saved.           *)
(***************************************************************************)
MAX_BATCH_ATTEMPTS == 2
MAX_CONCEPT_FAILURES == 2
MAX_RETRIES_PER_TOPIC == 5

\* the generation calls of one concept are counted up to MaxCalls; the
\* count stays there when the loop goes on
MaxCalls == 8
\* the targets of a concept tried
Targets == {1, 2, 11}
LoopScripts ==
  {"synonym", "antonym", "spellbee", "vocabulary", "unified", "grammar"}
KeyedScripts == {"synonym", "antonym", "spellbee", "vocabulary"}

Counted(calls) == IF calls < MaxCalls THEN calls + 1 ELSE calls

\* min(limit, target - concept_total)
Loop_batch_size(limit, m) ==
  IF limit < m.target_words - m.concept_total
  THEN limit ELSE m.target_words - m.concept_total

\* the locals of a concept before its while loop; failures is
\* concept_attempts (synonym), consecutive_failures (vocabulary) or
\* attempts (unified)
LoopInit(target_words) ==
  [stage |-> "while", target_words |-> target_words, concept_total |-> 0,
   failures |-> 0, attempt |-> 0, batch_size |-> 0, batch_success |-> FALSE,
   calls |-> 0]

\* the locals of a chapter of process_textbook_chapters at the first
\* attempt; concept_total is what the chapter adds to total_generated
GraLoopInit ==
  [stage |-> "attempt", target_words |-> 5, concept_total |-> 0,
   failures |-> 0, attempt |-> 1, batch_size |-> 5, batch_success |-> FALSE,
   calls |-> 0]

\* the number of iterations of `for attempt in range(...)`
Loop_attempts(script) ==
  CASE script = "synonym" -> MAX_BATCH_ATTEMPTS
    [] script = "antonym" -> 1
    [] OTHER -> MAX_RETRIES_PER_TOPIC

\* the unified loop without the test of its attempts
Loop_continues_unbounded(script, m) == m.concept_total < m.target_words

\* the condition of the while loop
Loop_continues(script, m) ==
  /\ m.concept_total < m.target_words
  /\ CASE script = "synonym" -> m.failures < MAX_CONCEPT_FAILURES
       [] script = "vocabulary" -> m.failures < 3
       [] script = "unified" -> m.failures < MAX_BATCH_ATTEMPTS
       [] OTHER -> TRUE

\* the while loop is entered: the statements before the for loop
Keyed_loop_batch(m) ==
  [m EXCEPT !.stage = "attempt", !.batch_size = Loop_batch_size(10, m),
            !.attempt = 1, !.batch_success = FALSE]

\* the generation call returning every valid item of the response
Keyed_batch_items_unchecked(script, batch_size, n, valid) == valid

\* generate_*_batch: the number of items returned (0: it returned None) for
\* a response of n items of which valid pass the validation; the synonym,
\* antonym and spelling-bee generators raise when n is not batch_size, the
\* vocabulary generator stops collecting at batch_size items
Keyed_batch_items(script, batch_size, n, valid) ==
  IF script = "vocabulary"
  THEN IF valid < batch_size THEN valid ELSE batch_size
  ELSE IF n # batch_size THEN 0 ELSE valid

\* one iteration of the for loop, and the statements after the loop when it
\* is the last one; items: the number of items the generation call returned
\* (0: it returned None), saved: what the save call returned
Keyed_loop_attempt(script, m, items, saved) ==
  IF items > 0
  THEN [m EXCEPT !.calls = Counted(@), !.concept_total = @ + saved,
                 !.batch_success = TRUE,
                 !.failures = IF script = "vocabulary" THEN 0 ELSE @,
                 !.stage = "while"]
  ELSE IF m.attempt < Loop_attempts(script)
  THEN [m EXCEPT !.calls = Counted(@), !.attempt = @ + 1]
  ELSE [m EXCEPT !.calls = Counted(@),
                 !.failures = IF script \in {"synonym", "vocabulary"}
                              THEN @ + 1 ELSE @,
                 !.stage = "while"]

\* one iteration of the while loop of generate_all_question_types
Uni_loop_round(m, items, saved) ==
  [m EXCEPT !.failures = @ + 1, !.batch_size = Loop_batch_size(5, m),
            !.calls = Counted(@),
            !.concept_total = IF items > 0 THEN @ + saved ELSE @]

\* one iteration of the for loop of process_textbook_chapters; content:
\* generate_grammar_questions returned questions, saved: what
\* save_questions_to_supabase returned
Gra_loop_attempt(m, content, saved) ==
  IF content /\ saved
  THEN [m EXCEPT !.calls = Counted(@), !.concept_total = @ + 5,
                 !.batch_success = TRUE, !.stage = "done"]
  ELSE IF m.attempt < MAX_RETRIES_PER_TOPIC
  THEN [m EXCEPT !.calls = Counted(@), !.attempt = @ + 1]
  ELSE [m EXCEPT !.calls = Counted(@), !.stage = "done"]

OutsideLoops ==
  <<which, pc, ant, syn, uni, pas, ret, accepted, store, unique_hash, runs,
    job, clock, hashed>>

InitLoops ==
  /\ which \in LoopScripts
  /\ pc = "ready"
  /\ ant = Ant_init
  /\ syn = Syn_init
  /\ uni = Uni_init
  /\ pas = Pas_init
  /\ ret = Call("none", <<>>, NoVerdict, FALSE)
  /\ accepted = {}
  /\ store = <<>>
  /\ unique_hash = FALSE
  /\ runs = <<>>
  /\ job = JobInit
  /\ clock = 0
  /\ hashed = {}
  /\ \E target_words \in Targets :
       main = IF which = "grammar" THEN GraLoopInit
              ELSE LoopInit(target_words)

\* the condition of the while loop is false: the concept is finished
LoopExit ==
  /\ which # "grammar"
  /\ main.stage = "while"
  /\ ~Loop_continues(which, main)
  /\ main' = [main EXCEPT !.stage = "done"]
  /\ UNCHANGED OutsideLoops

\* the while loop of a keyed generator starts a batch
KeyedLoopBatch ==
  /\ which \in KeyedScripts
  /\ main.stage = "while"
  /\ Loop_continues(which, main)
  /\ main' = Keyed_loop_batch(main)
  /\ UNCHANGED OutsideLoops

\* one generation call of a keyed generator, with the save call when the
\* generation returned items
KeyedLoopAttempt ==
  /\ which \in KeyedScripts
  /\ main.stage = "attempt"
  /\ \E n \in 0 .. main.batch_size + 1 :
       \E valid \in 0 .. n :
         \E saved \in 0 .. Keyed_batch_items(which, main.batch_size, n, valid) :
           main' = Keyed_loop_attempt(
                     which, main,
                     Keyed_batch_items(which, main.batch_size, n, valid),
                     saved)
  /\ UNCHANGED OutsideLoops

\* one round of the unified generator
UniLoopRound ==
  /\ which = "unified"
  /\ main.stage = "while"
  /\ Loop_continues(which, main)
  /\ \E items \in 0 .. Loop_batch_size(5, main) :
       \E saved \in 0 .. items :
         main' = Uni_loop_round(main, items, saved)
  /\ UNCHANGED OutsideLoops

\* one attempt of the grammar generator for the chapter
GraLoopAttempt ==
  /\ which = "grammar"
  /\ main.stage = "attempt"
  /\ \E content \in BOOLEAN, saved \in BOOLEAN :
       main' = Gra_loop_attempt(main, content, saved)
  /\ UNCHANGED OutsideLoops

NextLoops ==
  \/ LoopExit
  \/ KeyedLoopBatch
  \/ KeyedLoopAttempt
  \/ UniLoopRound
  \/ GraLoopAttempt

\* the script is one thread that runs each statement it reaches
SpecLoops == InitLoops /\ [][NextLoops]_vars /\ WF_vars(NextLoops)

\* C17 (synonym loop): the per-concept loop of the synonym generator
\* comes to its end, whatever the generation and save calls return.
C17_SynonymLoopTerminates == (which = "synonym") => <>(main.stage = "done")

\* C18 (antonym and spelling-bee loops): the per-concept loop comes to its
\* end and the run moves to the next concept, also when every generation
\* attempt fails or saves nothing.
C18_ConceptAbandoned ==
  (which \in {"antonym", "spellbee"}) => <>(main.stage = "done")

\* C19 (vocabulary loop): the per-concept loop comes to its end, after
\* three failed rounds in a row and also when rounds keep returning items
\* of which none is saved.
C19_VocabularyLoopTerminates ==
  (which = "vocabulary") => <>(main.stage = "done")

\* C20 (unified and grammar loops): generate_questions_batch is called at
\* most MAX_BATCH_ATTEMPTS times for a concept and
\* generate_grammar_questions at most MAX_RETRIES_PER_TOPIC times for a
\* chapter, and both loops come to their end.
C20_BoundedCallsAndTermination ==
  /\ [](which = "unified" => main.calls <= MAX_BATCH_ATTEMPTS)
  /\ [](which = "grammar" => main.calls <= MAX_RETRIES_PER_TOPIC)
  /\ (which \in {"unified", "grammar"}) => <>(main.stage = "done")

\* the unified loop has ended below its target after MAX_BATCH_ATTEMPTS
\* rounds
C20_Witness ==
  /\ which = "unified"
  /\ main.stage = "done"
  /\ main.calls = MAX_BATCH_ATTEMPTS
  /\ main.concept_total < main.target_words

(***************************************************************************)
(* The distribution of the 100 words of a grade and complexity over the    *)
(* concepts of its list (isee_antonym.py, isee_spellbee.py,                *)
(* isee_synonym.py)                                                        *)
(***************************************************************************)
\* the lengths of the concept lists tried: 1 .. MaxConcepts, and lists of
\* 100 and of more than 100 concepts
MaxConcepts == 12
ConceptCounts == (1 .. MaxConcepts) \cup {100, 101}

\* words_per_concept without the share of remaining_words
Target_words_without_remainder(len, i) == 100 \div len

\* target_words of the concept that enumerate() numbers i in a list of len
\* concepts
Target_words(len, i) ==
  LET words_per_concept == 100 \div len
      remaining_words == 100 % len
  IN  words_per_concept + (IF i < remaining_words THEN 1 ELSE 0)

\* the loop over the concepts before its first iteration
TargetsInit(len) == [stage |-> "concepts", len |-> len, targets |-> <<>>]

OutsideTargets ==
  <<which, pc, ant, syn, uni, pas, ret, accepted, store, unique_hash, runs,
    job, clock, hashed>>

InitTargets ==
  /\ which \in {"antonym", "spellbee", "synonym"}
  /\ pc = "ready"
  /\ ant = Ant_init
  /\ syn = Syn_init
  /\ uni = Uni_init
  /\ pas = Pas_init
  /\ ret = Call("none", <<>>, NoVerdict, FALSE)
  /\ accepted = {}
  /\ store = <<>>
  /\ unique_hash = FALSE
  /\ runs = <<>>
  /\ job = JobInit
  /\ clock = 0
  /\ hashed = {}
  /\ \E len \in ConceptCounts : main = TargetsInit(len)

\* one iteration of `for i, concept in enumerate(concept_list)`: the target
\* of the concept is computed
TargetNext ==
  /\ main.stage = "concepts"
  /\ Len(main.targets) < main.len
  /\ main' = [main EXCEPT
                !.targets = Append(@, Target_words(main.len, Len(@)))]
  /\ UNCHANGED OutsideTargets

\* the list of concepts is exhausted
TargetsDone ==
  /\ main.stage = "concepts"
  /\ Len(main.targets) = main.len
  /\ main' = [main EXCEPT !.stage = "done"]
  /\ UNCHANGED OutsideTargets

NextTargets == TargetNext \/ TargetsDone

SpecTargets == InitTargets /\ [][NextTargets]_vars

RECURSIVE SumSeq(_)
SumSeq(s) == IF s = <<>> THEN 0 ELSE Head(s) + SumSeq(Tail(s))

\* C21 (target distribution): when the loop over a concept list has ended,
\* the targets of its concepts sum to exactly 100 and any two of them differ
\* by at most 1.
C21_TargetsSumTo100 ==
  main.stage = "done" =>
    /\ SumSeq(main.targets) = 100
    /\ \A i, j \in DOMAIN main.targets :
         main.targets[i] - main.targets[j] <= 1

\* a list of 3 concepts got the targets 34, 33, 33
C21_Witness ==
  /\ main.stage = "done"
  /\ main.targets = <<34, 33, 33>>

(***************************************************************************)
(* Grade7UnifiedGenerator (readcomp9_gemini.py): initialize_system, then   *)
(* calls of generate_questions_batch                                       *)
(***************************************************************************)
MaxBatchCalls == 3

\* the texts of the passages extracted from the URLs
PoolTexts == {<<"X", " ">>, <<"x">>, <<"y">>}
PassagePools ==
  {<<>>, <<<<"X", " ">>>>, <<<<"X", " ">>, <<"y">>>>,
   <<<<"x">>, <<"y">>, <<"X", " ">>>>}

\* an item of the response: its question (Absent when a required field is
\* missing) and what is_content_safe says of its text
BatchQuestions ==
  {<<"a", " ", "b">>, <<"t", "i", "d", "e">>, None, Absent}
BatchItem(q, safe) == [question |-> q, safe |-> safe]
BatchItems == {BatchItem(q, TRUE) : q \in BatchQuestions}
                \cup {BatchItem(<<"t", "i", "d", "e">>, FALSE)}
\* content[items_key]
BatchResponses ==
  {<<>>} \cup {<<a>> : a \in BatchItems}
         \cup {<<a, b>> : a, b \in BatchItems}

QuestionTypes == {"grammar", "spelling"}
PromptTypes ==
  {"grammar", "synonym", "antonym", "vocabulary", "comprehension"}

\* the generator after __init__
GenInit ==
  [stage |-> "new", passage_pool |-> <<>>, current_passage_index |-> 0,
   passage_text |-> <<>>, response |-> <<>>, valid_items |-> <<>>,
   added |-> <<>>, calls |-> 0]

\* get_next_passage: the passage returned (None for an empty pool) and the
\* index after the call
Gen_get_next_passage(m) ==
  IF m.passage_pool = <<>>
  THEN [passage |-> None, index |-> m.current_passage_index]
  ELSE LET index == IF m.current_passage_index >= Len(m.passage_pool)
                    THEN 0 ELSE m.current_passage_index
       IN  [passage |-> m.passage_pool[index + 1], index |-> index + 1]

\* the text written into the prompt when the pool is empty
Gen_fallback(concept) ==
  <<"G", "e", "n", "e", "r", "a", "t", "e", " ">> \o concept

\* `for item in content[items_key]`: the detector, the items kept and the
\* calls of add_question made, or the exception that ended the loop
RECURSIVE Gen_validate(_, _, _, _, _, _)
Gen_validate(d, items, passage_text, concept, valid_items, added) ==
  IF items = <<>>
  THEN [self |-> d, valid_items |-> valid_items, added |-> added,
        raised |-> FALSE]
  ELSE
  LET item == Head(items)
      v == Uni_is_duplicate(d, item.question, passage_text, concept)
      checked == Uni_is_duplicate_self(d, item.question, passage_text, concept)
  IN  IF item.question = Absent \/ ~item.safe
      THEN Gen_validate(d, Tail(items), passage_text, concept, valid_items,
                        added)
      ELSE IF v.raised
      THEN [self |-> checked, valid_items |-> valid_items, added |-> added,
            raised |-> TRUE]
      ELSE IF v.dup
      THEN Gen_validate(checked, Tail(items), passage_text, concept,
                        valid_items, added)
      ELSE Gen_validate(
             Uni_add_question(checked, item.question, passage_text, concept),
             Tail(items), passage_text, concept,
             Append(valid_items, item),
             Append(added, [question |-> item.question,
                            passage |-> passage_text]))

\* generate_questions_batch: the generator and the detector after the call;
\* valid_items is what the call returned (<<>> stands for None)
Gen_generate_questions_batch(m, d, question_type, concept, parses, items) ==
  LET next == Gen_get_next_passage(m)
      passage_text == IF next.passage = None THEN Gen_fallback(concept)
                      ELSE next.passage
      called == [m EXCEPT !.current_passage_index = next.index,
                          !.passage_text = passage_text,
                          !.response = <<>>,
                          !.valid_items = <<>>,
                          !.calls = @ + 1]
      r == Gen_validate(d, items, passage_text, concept, <<>>, m.added)
  IN  IF question_type \notin PromptTypes \/ ~parses
      THEN [main |-> called, uni |-> d]
      ELSE [main |-> [called EXCEPT
                        !.response = items,
                        !.valid_items =
                           IF r.raised THEN <<>> ELSE r.valid_items,
                        !.added = r.added],
            uni |-> r.self]

OutsideUnified ==
  <<which, pc, ant, syn, pas, ret, accepted, store, unique_hash, runs, job,
    clock, hashed>>

InitUnified ==
  /\ which = "unified"
  /\ pc = "new"
  /\ ant = Ant_init
  /\ syn = Syn_init
  /\ uni = Uni_init
  /\ pas = Pas_init
  /\ ret = Call("none", <<>>, NoVerdict, FALSE)
  /\ accepted = {}
  /\ store = <<>>
  /\ unique_hash = FALSE
  /\ runs = <<>>
  /\ job = JobInit
  /\ clock = 0
  /\ hashed = {}
  /\ main = GenInit

\* initialize_system: the index is loaded and the pool is filled
GenInitialize ==
  /\ main.stage = "new"
  /\ \E data \in UniData, queryFails \in BOOLEAN, pool \in PassagePools :
       /\ uni' = Uni_load_existing_questions(uni, data, queryFails).self
       /\ main' = [main EXCEPT !.stage = "batches", !.passage_pool = pool]
  /\ UNCHANGED OutsideUnified

\* one call of generate_questions_batch from generate_all_question_types
GenBatch ==
  /\ main.stage = "batches"
  /\ main.calls < MaxBatchCalls
  /\ \E question_type \in QuestionTypes, concept \in UniConcepts,
        parses \in BOOLEAN, items \in BatchResponses :
       LET r == Gen_generate_questions_batch(main, uni, question_type,
                                             concept, parses, items)
       IN  /\ main' = r.main
           /\ uni' = r.uni
  /\ UNCHANGED OutsideUnified

\* generate_all_question_types has gone through its loops
GenDone ==
  /\ main.stage = "batches"
  /\ main' = [main EXCEPT !.stage = "done"]
  /\ UNCHANGED uni
  /\ UNCHANGED OutsideUnified

NextUnified == GenInitialize \/ GenBatch \/ GenDone

SpecUnified == InitUnified /\ [][NextUnified]_vars

\* the passages add_question was called with
AddedPassages(added) == {added[i].passage : i \in DOMAIN added}

\* C24 (one question per passage): in a run of the Grade 7 unified generator
\* no two accepted questions have the same passage text; every passage
\* add_question recorded is reported as a duplicate with any question; a call
\* of generate_questions_batch returns at most one item, and none when its
\* passage was recorded before the call.
C24_OneQuestionPerPassage ==
  [][(main.stage = "batches" /\ main'.stage = "batches") =>
       /\ Len(main'.valid_items) <= 1
       /\ \A i, j \in DOMAIN main'.added :
            i # j => main'.added[i].passage # main'.added[j].passage
       /\ \A p \in AddedPassages(main'.added) :
            \A q \in BatchQuestions \ {None, Absent}, c \in UniConcepts :
               Uni_is_duplicate(uni', q, p, c).dup
       /\ main'.passage_text \in AddedPassages(main.added)
            => main'.valid_items = <<>>]_vars

\* a pool of one passage was used twice: the first call accepted a question,
\* the second call got an item with another question and returned nothing
C24_Witness ==
  /\ main.stage = "batches"
  /\ Len(main.passage_pool) = 1
  /\ main.calls = 2
  /\ Len(main.added) = 1
  /\ main.added[1].passage = main.passage_text
  /\ main.valid_items = <<>>
  /\ \E i \in DOMAIN main.response :
       /\ main.response[i].safe
       /\ IsStr(main.response[i].question)
       /\ main.response[i].question # main.added[1].question

\* C26 (concept total within target): in the loops of the synonym, antonym,
\* spelling-bee and vocabulary generators the number of items saved for a
\* concept is never negative and never exceeds the target of the concept.
C26_ConceptTotalWithinTarget ==
  which \in KeyedScripts =>
    /\ 0 <= main.concept_total
    /\ main.concept_total <= main.target_words

\* the antonym loop has ended with a full batch of 10 and a last batch of 1
\* saved for a target of 11
C26_Witness ==
  /\ which = "antonym"
  /\ main.stage = "done"
  /\ main.target_words = 11
  /\ main.concept_total = 11
  /\ main.batch_size = 1

(***************************************************************************)
(* EducationalContentGenerator (educational_content_generator.py): runs    *)
(* of upload_to_supabase with one question list                            *)
(***************************************************************************)
MaxUploads == 2
MaxListLen == 2

\* dict.get(key, default)
Get(v, default) == IF v = Absent THEN default ELSE v
\* s[:n]
Take(s, n) == IF Len(s) <= n THEN s ELSE SubSeq(s, 1, n)
\* the exception of a subscript with a missing key
KeyError == <<"<KeyError>">>

\* a generated question of one of the types vocabulary, grammar and
\* reading_comprehension; Absent: the dict has no such key
EduQuestion(type, word, question_text, passage_title, passage_text) ==
  [type |-> <<type>>, word |-> word, question_text |-> question_text,
   sentence |-> Absent, passage_title |-> passage_title,
   passage_text |-> passage_text, grade |-> 5, mood |-> <<"m">>,
   difficulty |-> 1]
EduVocabulary == EduQuestion("vocabulary", <<"a">>, <<"b">>, Absent, Absent)
EduGrammar == EduQuestion("grammar", Absent, <<"b">>, Absent, Absent)
EduGrammarNoText == EduQuestion("grammar", Absent, Absent, Absent, Absent)
EduReading ==
  EduQuestion("reading_comprehension", Absent, Absent, <<"t">>, Rep("x", 101))
EduVocabularyNoWord ==
  EduQuestion("vocabulary", Absent, <<"b">>, Absent, Absent)
EduQuestions ==
  {EduVocabulary, EduGrammar, EduGrammarNoText, EduReading,
   EduVocabularyNoWord}
EduLists ==
  UNION {[1 .. n -> EduQuestions] : n \in 0 .. MaxListLen}

\* the question_hash format_for_database stores
Edu_format_hash(q) ==
  md5(IF q.type = <<"reading_comprehension">>
      THEN q.type \o <<"_">> \o Get(q.passage_title, <<>>) \o <<"_">>
           \o Take(Get(q.passage_text, <<>>), 100) \o <<"_">>
           \o Str(q.grade) \o <<"_">> \o q.mood
      ELSE q.type \o <<"_">> \o Get(q.word, <<>>) \o <<"_">>
           \o Get(q.question_text, <<>>) \o <<"_">>
           \o Get(q.sentence, <<>>) \o <<"_">>
           \o Str(q.grade) \o <<"_">> \o q.mood)

\* format_for_database for one question: the row (q["word"] raises KeyError
\* for a vocabulary question without word, see Edu_format_for_database)
Edu_format_question(q) ==
       [question_hash |-> Edu_format_hash(q),
        question |->
          [type |-> q.type,
           word |-> IF q.type = <<"vocabulary">> THEN q.word ELSE Absent,
           question_text |->
             IF q.type \in {<<"vocabulary">>, <<"grammar">>}
             THEN Get(q.question_text, <<>>) ELSE Absent,
           passage_title |->
             IF q.type = <<"reading_comprehension">>
             THEN Get(q.passage_title, <<>>) ELSE Absent],
        grade |-> q.grade, mood |-> q.mood, difficulty |-> q.difficulty]

\* format_for_database: the rows, or raised for a KeyError
Edu_format_for_database(questions) ==
  IF \E k \in DOMAIN questions :
       questions[k].type = <<"vocabulary">> /\ questions[k].word = Absent
  THEN [raised |-> TRUE, rows |-> <<>>]
  ELSE [raised |-> FALSE,
        rows |-> [k \in DOMAIN questions |->
                    Edu_format_question(questions[k])]]

\* check_for_duplicates: the identifier of a row of the table
Edu_existing_identifier(existing) ==
  LET question_data == existing.question
      question_type == Get(question_data.type, <<"unknown">>)
      tail == <<"_">> \o Str(existing.grade) \o <<"_">> \o existing.mood
  IN  IF question_type = <<"vocabulary">>
      THEN question_type \o <<"_">> \o Get(question_data.word, <<>>) \o tail
           \o <<"_">> \o Str(existing.difficulty)
      ELSE IF question_type = <<"grammar">>
      THEN question_type \o <<"_">> \o Get(question_data.question_text, <<>>)
           \o tail
      ELSE IF question_type = <<"reading_comprehension">>
      THEN question_type \o <<"_">> \o Get(question_data.passage_title, <<>>)
           \o tail
      ELSE question_type \o <<"_">>
           \o Get(question_data.question_text,
                  <<"u", "n", "k", "n", "o", "w", "n">>) \o tail

\* check_for_duplicates: the hash computed for a new question
Edu_check_hash(question) ==
  md5(IF question.type = <<"reading_comprehension">>
      THEN question.type \o <<"_">> \o Get(question.passage_title, <<>>)
           \o <<"_">> \o Take(Get(question.passage_text, <<>>), 100)
           \o <<"_">> \o Str(question.grade) \o <<"_">> \o question.mood
      ELSE question.type \o <<"_">> \o Get(question.word, <<>>) \o <<"_">>
           \o Get(question.question_text, <<>>) \o <<"_">>
           \o Get(question.sentence, <<>>) \o <<"_">>
           \o Str(question.grade) \o <<"_">> \o question.mood)

\* check_for_duplicates: the identifier of a new question, or KeyError
Edu_new_identifier(question) ==
  LET tail == <<"_">> \o Str(question.grade) \o <<"_">> \o question.mood
  IN  IF question.type = <<"vocabulary">>
      THEN IF question.word = Absent THEN KeyError
           ELSE question.type \o <<"_">> \o question.word \o tail
                \o <<"_">> \o Str(question.difficulty)
      ELSE IF question.type = <<"grammar">>
      THEN IF question.question_text = Absent THEN KeyError
           ELSE question.type \o <<"_">> \o question.question_text \o tail
      ELSE question.type \o <<"_">> \o Get(question.passage_title, <<>>)
           \o tail

\* the `for question in questions` loop of check_for_duplicates
RECURSIVE Edu_filter(_, _, _, _)
Edu_filter(questions, existing_hashes, existing_identifiers, unique) ==
  IF questions = <<>> THEN [raised |-> FALSE, unique_questions |-> unique]
  ELSE
  LET question == Head(questions)
      identifier == Edu_new_identifier(question)
  IN  IF Edu_check_hash(question) \in existing_hashes
      THEN Edu_filter(Tail(questions), existing_hashes, existing_identifiers,
                      unique)
      ELSE IF identifier = KeyError
      THEN [raised |-> TRUE, unique_questions |-> unique]
      ELSE Edu_filter(Tail(questions), existing_hashes, existing_identifiers,
                      IF identifier \notin existing_identifiers
                      THEN Append(unique, question) ELSE unique)

\* check_for_duplicates returning every question
Edu_check_for_duplicates_unfiltered(questions, table, readFails) == questions

\* check_for_duplicates; readFails: the select raises
Edu_check_for_duplicates(questions, table, readFails) ==
  LET existing_hashes ==
        {table[k].question_hash : k \in DOMAIN table} \ {None}
      existing_identifiers ==
        {Edu_existing_identifier(table[k]) : k \in DOMAIN table}
      r == Edu_filter(questions, existing_hashes, existing_identifiers, <<>>)
  IN  IF readFails \/ r.raised THEN questions ELSE r.unique_questions

\* the individual inserts after a failed batch insert; failing: the
\* positions in the batch whose insert raises
RECURSIVE Edu_insert_individually(_, _, _, _, _, _)
Edu_insert_individually(table, batch, k, failing, unique, uploaded_count) ==
  IF k > Len(batch)
  THEN [table |-> table, uploaded_count |-> uploaded_count]
  ELSE IF k \in failing \/ (unique /\ PopConflict(table, <<batch[k]>>))
  THEN Edu_insert_individually(table, batch, k + 1, failing, unique,
                               uploaded_count)
  ELSE Edu_insert_individually(Append(table, batch[k]), batch, k + 1,
                               failing, unique, uploaded_count + 1)

\* upload_to_supabase: the table after the call, what the call returned,
\* the number of questions it set out to insert and the number inserted;
\* batchFails: the insert of the batch raises
Edu_upload_to_supabase(questions, table, unique, readFails, batchFails, failing) ==
  LET unique_questions == Edu_check_for_duplicates(questions, table, readFails)
      formatted == Edu_format_for_database(unique_questions)
      formatted_questions == formatted.rows
      one_by_one == Edu_insert_individually(table, formatted_questions, 1,
                                            failing, unique, 0)
  IN  IF unique_questions = <<>>
      THEN [table |-> table, returned |-> TRUE, to_upload |-> 0,
            uploaded_count |-> 0]
      ELSE IF formatted.raised
      THEN [table |-> table, returned |-> FALSE,
            to_upload |-> Len(unique_questions), uploaded_count |-> 0]
      ELSE IF batchFails \/ (unique /\ PopConflict(table, formatted_questions))
      THEN [table |-> one_by_one.table, returned |-> TRUE,
            to_upload |-> Len(formatted_questions),
            uploaded_count |-> one_by_one.uploaded_count]
      ELSE [table |-> table \o formatted_questions, returned |-> TRUE,
            to_upload |-> Len(formatted_questions),
            uploaded_count |-> Len(formatted_questions)]

\* a row written by another script: no question_hash, and the identifier
\* of EduGrammar
EduForeignRow ==
  [question_hash |-> None,
   question |-> [type |-> <<"grammar">>, word |-> Absent,
                 question_text |-> <<"b">>, passage_title |-> Absent],
   grade |-> 5, mood |-> <<"m">>, difficulty |-> 1]
\* the tables the first run can find
EduTables ==
  {<<>>, <<Edu_format_question(EduVocabulary)>>, <<EduForeignRow>>}

\* the question list of the runs; uploads counts the runs made, the other
\* fields describe the last run
EduInit(questions) ==
  [stage |-> "upload", questions |-> questions, uploads |-> 0,
   returned |-> FALSE, to_upload |-> 0, uploaded_count |-> 0,
   read_failed |-> FALSE]

OutsideUpload ==
  <<which, pc, ant, syn, uni, pas, ret, accepted, unique_hash, runs, job,
    clock, hashed>>

InitUpload ==
  /\ which = "content"
  /\ pc = "ready"
  /\ ant = Ant_init
  /\ syn = Syn_init
  /\ uni = Uni_init
  /\ pas = Pas_init
  /\ ret = Call("none", <<>>, NoVerdict, FALSE)
  /\ accepted = {}
  /\ store \in EduTables
  /\ unique_hash \in BOOLEAN
  /\ runs = <<>>
  /\ job = JobInit
  /\ clock = 0
  /\ hashed = {}
  /\ \E questions \in EduLists : main = EduInit(questions)

\* one run: main() calls upload_to_supabase with the list
EduUpload ==
  /\ main.stage = "upload"
  /\ main.uploads < MaxUploads
  /\ \E readFails \in BOOLEAN, batchFails \in BOOLEAN,
        failing \in SUBSET (1 .. MaxListLen) :
       LET r == Edu_upload_to_supabase(main.questions, store, unique_hash,
                                       readFails, batchFails, failing)
       IN  /\ store' = r.table
           /\ main' = [main EXCEPT !.uploads = @ + 1,
                                   !.returned = r.returned,
                                   !.to_upload = r.to_upload,
                                   !.uploaded_count = r.uploaded_count,
                                   !.read_failed = readFails]
  /\ UNCHANGED OutsideUpload

NextUpload == EduUpload

SpecUpload == InitUpload /\ [][NextUpload]_vars

\* the last run returned True and inserted every question it set out to
\* insert
EduComplete(m) ==
  m.uploads > 0 /\ m.returned /\ m.uploaded_count = m.to_upload

\* C28 as stated (idempotent upload): a run that follows a run which
\* succeeded completely with the same list, the table unchanged in between,
\* inserts nothing.
C28_SecondUploadInsertsNothing ==
  [][(EduComplete(main) /\ main'.uploads = main.uploads + 1)
       => store' = store]_vars

\* C28 (idempotent upload, amended): a run that follows a run which
\* succeeded completely with the same list, the table unchanged in between,
\* inserts nothing when its select of the existing rows succeeds; when the
\* select fails, the run sets out to insert every question of the list.
C28_SecondUploadInsertsNothingIfRead ==
  [][(EduComplete(main) /\ main'.uploads = main.uploads + 1)
       => IF main'.read_failed
          THEN main'.to_upload = Len(main.questions)
          ELSE store' = store]_vars

\* the first run inserted both questions of its list into an empty table,
\* the second run read the table and inserted nothing
C28_Witness ==
  /\ main.uploads = 2
  /\ ~main.read_failed
  /\ main.returned
  /\ main.to_upload = 0
  /\ Len(main.questions) = 2
  /\ main.questions[1] # main.questions[2]
  /\ Len(store) = 2
  /\ store[1].question_hash = Edu_check_hash(main.questions[1])
  /\ store[2].question_hash = Edu_check_hash(main.questions[2])

====
